---- MODULE Spec2Model ----
(***************************************************************************)
(* A model of the reactive core of the `hej` crate: the TaskPool           *)
(* (crates/hej/src/pool.rs) and the Application loop                       *)
(* (crates/hej/src/application.rs), with the label list of an Element      *)
(* (crates/hej/src/element.rs).                                            *)
(*                                                                         *)
(* A task instance is identified by its path: the number of the root       *)
(* submission followed by the child indices that lead to the node.  A task *)
(* is consumed by value, so a path names at most one instance; the oneshot *)
(* channel whose sender is stored in `task.signal` is named by the path of *)
(* that task.                                                              *)
(***************************************************************************)
EXTENDS Integers, Sequences, FiniteSets, TLC

(* ------------------------------ bounds -------------------------------- *)

\* Largest number of leaves of a task tree handed to the pool on its own.
MaxLeaves == 3

\* Largest number of Messages the Backend emits on its own (external input).
MaxInputs == 1

\* Largest number of Message steps the Application loop is followed through.
MaxSteps == 2

\* Largest number of children of a container element.
MaxChildren == 2

\* Largest number of values waiting in a channel followed on its own.
MaxBuffered == 3

\* Largest number of Submitter handles of a channel followed on its own.
MaxSubmitters == 2

\* Largest number of Elements the Wayland Backend is followed through.
MaxReceived == 4

(* --------------------------- Option, values --------------------------- *)

None == <<>>

Some(v) == <<v>>

Labels == {"a", "b"}

(* ------------------------------ Elements ------------------------------ *)

\* empty().label(l).element(): a widget that is no container.
Widget(l) == [container |-> FALSE, label |-> l, elements |-> <<>>]

\* container().with(..).element(): ContainerWidget keeps Widget::label's
\* default, None.
Container(es) == [container |-> TRUE, label |-> None, elements |-> es]

Widgets == {Widget(None)} \cup {Widget(Some(l)) : l \in Labels}

SeqsUpTo(S, n) == UNION {[1..k -> S] : k \in 0..n}

Elements == Widgets \cup {Container(es) : es \in SeqsUpTo(Widgets, MaxChildren)}

label(e) == e.label

\* Element::labels: the labels of a container's direct children, else the
\* element's own label.
labels(e) ==
    IF e.container
    THEN [i \in 1..Len(e.elements) |-> label(e.elements[i])]
    ELSE <<label(e)>>

\* Element::map: a MapWidget around the widget of e; MapWidget is no
\* ContainerWidget and keeps Widget::label's default, None.
map(e) == [container |-> FALSE, label |-> None, elements |-> <<>>, widget |-> e]

\* An unpacking that leaves out the children without a label.
into_listLabelled(e) ==
    LET HasLabel(c) == label(c) # None IN
    IF e.container THEN SelectSeq(e.elements, HasLabel) ELSE <<e>>

\* Element::into_list: the elements of a ContainerWidget, else the element
\* alone.
into_list(e) == IF e.container THEN e.elements ELSE <<e>>

\* The children a container is given when into_list and labels are followed
\* on their own: widgets, containers and mapped elements.
ListChildren ==
    Widgets \cup {Container(<<>>), Container(<<Widget(Some("a"))>>)}
            \cup {map(Widget(Some("a"))), map(Container(<<Widget(Some("a"))>>))}

\* The elements into_list and labels are applied to.
ListElements == ListChildren \cup {Container(es) : es \in SeqsUpTo(ListChildren, MaxChildren)}

\* Vec::contains
contains(s, v) == \E i \in 1..Len(s) : s[i] = v

(* ------------------------------- Tasks -------------------------------- *)

\* A future and what awaiting it yields: "ok" (Ok(message)), "err"
\* (Err(report)), or the name of the Message of Ok(message) when the claim
\* follows which Message it is.
Simple(outcome) == [handle |-> "Simple", fut |-> outcome]

\* enum Message of examples/basic.rs
BasicMessages == {"Stop", "Open", "Nothing"}

\* Task::msg(m): a Simple leaf that resolves at once, with Ok(m).
msg(m) == Simple(m)

\* Task::wait(duration, m): a Simple leaf that resolves after the delay,
\* with Ok(m); time is not measured, so the delay is any number of steps.
wait(duration, m) == Simple(m)

Special(d) == [handle |-> "Special", directive |-> d]

Batch(ts) == [handle |-> "Batch", tasks |-> ts]

Then(f, s) == [handle |-> "Then", first |-> f, second |-> s]

SpecialNone == [kind |-> "None"]

SpecialStop == [kind |-> "Stop"]

SpecialResetState == [kind |-> "ResetState"]

SpecialSubmit(e) == [kind |-> "Submit", element |-> e]

SpecialClose(l) == [kind |-> "Close", label |-> l]

RECURSIVE TreesOfSize(_, _)
\* The task trees with exactly n leaves drawn from L, built with then and
\* batch.
TreesOfSize(L, n) ==
    IF n = 1
    THEN L
    ELSE UNION {
           {Then(a, b) : a \in TreesOfSize(L, i), b \in TreesOfSize(L, n - i)}
           \cup {Batch(<<a, b>>) : a \in TreesOfSize(L, i), b \in TreesOfSize(L, n - i)}
           : i \in 1..(n - 1)}

TaskTrees(L, n) == UNION {TreesOfSize(L, k) : k \in 1..n}

\* The leaves of the trees handed to the pool on its own.
PoolLeaves == {Simple("ok"), Simple("err"), Special(SpecialClose("a"))}

\* A Task value as the pool's mailbox holds it: the handle, the optional
\* oneshot sender `signal` (TRUE: Some(sender of the channel named by path)).
TaskInstance(p, t, sig) == [path |-> p, handle |-> t, signal |-> sig]

(* ------------------------------ Messages ------------------------------ *)

\* The Message a leaf's future yields on success; `leaf` records the path of
\* the leaf that produced it.
OkMessage(p) == [body |-> "Msg", leaf |-> p]

\* on_error(report): the substitute Message of a failed leaf.
on_error(p) == [body |-> "Error", leaf |-> p]

\* A Message the Backend emits on its own.
InputMessage == [body |-> "Input", leaf |-> <<>>]

(* ------------------------------ state --------------------------------- *)

VARIABLES
    taskQ,          \* the pool's task mailbox (TaskPool.server)
    signals,        \* oneshot channels: path -> "pending" | "fired" | "dropped"
    leaves,         \* spawned Simple leaves: path -> [pc, fut, signal]
    coords,         \* spawned Then/Batch coordinators: path -> record
    msgQ,           \* the Message mailbox (msg_server)
    dirQ,           \* the Directive mailbox (directive_server)
    app,            \* which user functions the Application was made with
    appPc,          \* position of Application::jobs / the server loop
    initial_task,   \* Application.initial_task as .task() set it: None or Some(task)
    state,          \* the user State owned by the server loop
    appLabels,      \* `labels` of the server loop: labels of the last render
    sentElems,      \* what the loop's last step submitted to backend.submitter()
    sentCloses,     \* what the loop's last step submitted to backend.closer()
    nRoots,         \* number of tasks submitted to the pool by jobs/the loop
    nSteps,         \* number of Message steps taken by the loop
    nInputs,        \* number of Messages emitted by the Backend
    stepSends,      \* the mailboxes the loop's last step sent to, in send order
    backendTrace,   \* every send to the Backend about a followed label, in order
    backendPc,      \* the task of backend.run(): "None" | "Running" | "Ok" | "Err"
    interrupted,    \* tokio::signal::ctrl_c() has resolved
    runResult,      \* what Application::run returned: None or Some([by, result])
    firstDone,      \* which of run's four futures resolved first: None or Some(name)
    mailbox,        \* a channel() on its own: [buf, submitters, server]
    returned,       \* what the last call followed on its own returned
    elementIn,      \* the Element last handed to a function or to the Backend
    backendState    \* State of the Wayland Backend: [lut, views, destroyed]

poolVars == <<taskQ, signals, leaves, coords>>

chanVars == <<msgQ, dirQ>>

appVars == <<app, appPc, initial_task, state, appLabels, sentElems, sentCloses,
             nRoots, nSteps, nInputs, stepSends, backendTrace>>

\* What a part followed on its own works on.
extVars == <<elementIn, backendState>>

runVars == <<backendPc, interrupted, runResult, firstDone, mailbox, returned,
             extVars>>

vars == <<poolVars, chanVars, appVars, runVars>>

\* Before Application::run has been called: no Backend, no result.
InitRunVars ==
    /\ backendPc = "None"
    /\ interrupted = FALSE
    /\ runResult = None
    /\ firstDone = None
    /\ mailbox = None
    /\ returned = None
    /\ elementIn = None
    /\ backendState = None

(* ------------------------------ mailboxes ----------------------------- *)

\* The receiving halves msg_server and directive_server live in the server
\* task (and before it in jobs); they are dropped when jobs fails or the
\* loop has ended.
ReceiversOpen == appPc \notin {"Stopped", "Failed"}

\* A send that puts its value in the buffer whether or not a receiver is
\* left.
submitUnchecked(q, v, open) == Append(q, v)

\* Submitter::submit on an unbounded channel: appends, or fails (the value is
\* dropped, the caller logs) once the receiver is gone.
submit(q, v, open) == IF open THEN Append(q, v) ELSE q

\* s.send(()) on the oneshot sender of the task at path p, when it has one.
SendSignal(sigs, task) ==
    IF task.signal THEN [sigs EXCEPT ![task.path] = "fired"] ELSE sigs

\* tokio::sync::oneshot::channel() whose sender is stored in the task at p.
NewSignal(sigs, p) == sigs @@ (p :> "pending")

\* release.await returns (Ok or Err) once the sender has fired or is dropped.
Released(p) == p \in DOMAIN signals /\ signals[p] # "pending"

(* ------------------------------ TaskPool ------------------------------ *)

\* A Then coordinator was spawned for the task at q.
IsThen(q) == q \in DOMAIN coords /\ coords[q].kind = "Then"

\* A Batch coordinator was spawned for the task at q.
IsBatch(q) == q \in DOMAIN coords /\ coords[q].kind = "Batch"

\* enum ApplicationDirective
DirectiveStop == [variant |-> "Stop"]

DirectiveResetState == [variant |-> "ResetState"]

DirectiveSubmit(e) == [variant |-> "Submit", element |-> e]

DirectiveClose(l) == [variant |-> "Close", label |-> l]

\* The Special arm's translation of a SpecialTask into an ApplicationDirective.
Directive(d) ==
    CASE d.kind = "Stop" -> DirectiveStop
      [] d.kind = "ResetState" -> DirectiveResetState
      [] d.kind = "Submit" -> DirectiveSubmit(d.element)
      [] d.kind = "Close" -> DirectiveClose(d.label)

\* A Special arm that leaves the receive loop when the Directive mailbox
\* refuses the Directive.
SpecialArmStopsOnFailure(task) ==
    /\ task.handle.handle = "Special"
    /\ task.handle.directive = SpecialNone \/ ReceiversOpen
    /\ dirQ' = IF task.handle.directive = SpecialNone
               THEN dirQ
               ELSE submit(dirQ, Directive(task.handle.directive), ReceiversOpen)
    /\ signals' = SendSignal(signals, task)
    /\ UNCHANGED <<leaves, coords, msgQ>>

\* A Special arm that submits ApplicationDirective::Stop whatever the task.
SpecialArmAlwaysStop(task) ==
    /\ task.handle.handle = "Special"
    /\ dirQ' = submit(dirQ, DirectiveStop, ReceiversOpen)
    /\ signals' = SendSignal(signals, task)
    /\ UNCHANGED <<leaves, coords, msgQ>>

SpecialArm(task) ==
    /\ task.handle.handle = "Special"
    /\ dirQ' = IF task.handle.directive = SpecialNone
               THEN dirQ
               ELSE submit(dirQ, Directive(task.handle.directive), ReceiversOpen)
    /\ signals' = SendSignal(signals, task)
    /\ UNCHANGED <<leaves, coords, msgQ>>

SimpleArm(task) ==
    /\ task.handle.handle = "Simple"
    /\ leaves' = leaves @@ (task.path :>
                    [pc |-> "running", fut |-> task.handle.fut, signal |-> task.signal])
    /\ UNCHANGED <<signals, coords, msgQ, dirQ>>

BatchArm(task) ==
    /\ task.handle.handle = "Batch"
    /\ coords' = coords @@ (task.path :>
                    [kind |-> "Batch", pc |-> "submit", idx |-> 1,
                     tasks |-> task.handle.tasks, signal |-> task.signal])
    /\ UNCHANGED <<signals, leaves, msgQ, dirQ>>

ThenArm(task) ==
    /\ task.handle.handle = "Then"
    /\ coords' = coords @@ (task.path :>
                    [kind |-> "Then", pc |-> "first", idx |-> 1,
                     tasks |-> <<task.handle.first, task.handle.second>>,
                     signal |-> task.signal])
    /\ UNCHANGED <<signals, leaves, msgQ, dirQ>>

\* A receive loop that awaits the future of a Simple task itself: it takes
\* no task while a leaf runs.
PoolRecvAwaitsLeaf ==
    /\ \A p \in DOMAIN leaves : leaves[p].pc # "running"
    /\ taskQ # <<>>
    /\ taskQ' = Tail(taskQ)
    /\ \/ SpecialArm(Head(taskQ))
       \/ SimpleArm(Head(taskQ))
       \/ BatchArm(Head(taskQ))
       \/ ThenArm(Head(taskQ))
    /\ UNCHANGED <<appVars, runVars>>

\* A receive loop that a leaf's panic unwinds: it takes no task once a leaf
\* has panicked.
PoolRecvUnwound ==
    /\ \A p \in DOMAIN leaves : leaves[p].pc # "panicked"
    /\ taskQ # <<>>
    /\ taskQ' = Tail(taskQ)
    /\ \/ SpecialArm(Head(taskQ))
       \/ SimpleArm(Head(taskQ))
       \/ BatchArm(Head(taskQ))
       \/ ThenArm(Head(taskQ))
    /\ UNCHANGED <<appVars, runVars>>

\* A pool that shares the State with the loop and clears it itself when it
\* takes a ResetState.
PoolRecvSharesState ==
    /\ taskQ # <<>>
    /\ taskQ' = Tail(taskQ)
    /\ \/ SpecialArm(Head(taskQ))
       \/ SimpleArm(Head(taskQ))
       \/ BatchArm(Head(taskQ))
       \/ ThenArm(Head(taskQ))
    /\ state' = IF Head(taskQ).handle = Special(SpecialResetState)
                THEN None ELSE state
    /\ UNCHANGED <<app, appPc, initial_task, appLabels, sentElems, sentCloses,
                   nRoots, nSteps, nInputs, stepSends, backendTrace, runVars>>

\* One iteration of `while let Ok(task) = self.server.recv().await`.
PoolRecv ==
    /\ taskQ # <<>>
    /\ taskQ' = Tail(taskQ)
    /\ \/ SpecialArm(Head(taskQ))
       \/ SimpleArm(Head(taskQ))
       \/ BatchArm(Head(taskQ))
       \/ ThenArm(Head(taskQ))
    /\ UNCHANGED <<appVars, runVars>>

\* A leaf that fires its completion signal only when its future returned
\* Ok.
LeafResolveSignalsOk(p) ==
    /\ p \in DOMAIN leaves /\ leaves[p].pc = "running"
    /\ leaves[p].fut \in {"ok", "err"} \cup BasicMessages
    /\ leaves' = [leaves EXCEPT ![p].pc = "resolved"]
    /\ signals' = IF leaves[p].fut = "err"
                  THEN signals
                  ELSE SendSignal(signals, [path |-> p, signal |-> leaves[p].signal])
    /\ UNCHANGED <<taskQ, coords, chanVars, appVars>>

\* The spawned leaf: `let result = fut.await; signal.map(|s| s.send(()));`
LeafResolve(p) ==
    /\ p \in DOMAIN leaves /\ leaves[p].pc = "running"
    /\ leaves[p].fut \in {"ok", "err"} \cup BasicMessages
    /\ leaves' = [leaves EXCEPT ![p].pc = "resolved"]
    /\ signals' = SendSignal(signals, [path |-> p, signal |-> leaves[p].signal])
    /\ UNCHANGED <<taskQ, coords, chanVars, appVars>>

\* s.send(()) never happens: the oneshot sender of the task at path p, when
\* it has one, is dropped.
DropSignal(sigs, task) ==
    IF task.signal THEN [sigs EXCEPT ![task.path] = "dropped"] ELSE sigs

\* The spawned leaf when `fut.await` panics: the spawned task unwinds, which
\* drops `signal`, `result_sender` and `on_error` unused; its JoinHandle was
\* dropped at the spawn, so nothing observes the panic.
LeafPanic(p) ==
    /\ p \in DOMAIN leaves /\ leaves[p].pc = "running"
    /\ leaves[p].fut = "panic"
    /\ leaves' = [leaves EXCEPT ![p].pc = "panicked"]
    /\ signals' = DropSignal(signals, [path |-> p, signal |-> leaves[p].signal])
    /\ UNCHANGED <<taskQ, coords, chanVars, appVars>>

\* result.unwrap_or_else(|e| on_error(e))
ResultMessage(p, fut) ==
    CASE fut = "ok" -> OkMessage(p)
      [] fut \in BasicMessages -> [body |-> fut, leaf |-> p]
      [] OTHER -> on_error(p)

\* A leaf that submits only the on_error Message and drops a success value.
LeafSubmitErrOnly(p) ==
    /\ p \in DOMAIN leaves /\ leaves[p].pc = "resolved"
    /\ msgQ' = IF leaves[p].fut = "err"
               THEN submit(msgQ, on_error(p), ReceiversOpen) ELSE msgQ
    /\ leaves' = [leaves EXCEPT ![p].pc = "done"]
    /\ UNCHANGED <<taskQ, signals, coords, dirQ, appVars>>

\* A leaf that submits only a success value and only logs an error.
LeafSubmitOkOnly(p) ==
    /\ p \in DOMAIN leaves /\ leaves[p].pc = "resolved"
    /\ msgQ' = IF leaves[p].fut = "ok"
               THEN submit(msgQ, OkMessage(p), ReceiversOpen) ELSE msgQ
    /\ leaves' = [leaves EXCEPT ![p].pc = "done"]
    /\ UNCHANGED <<taskQ, signals, coords, dirQ, appVars>>

\* The spawned leaf: `result_sender.submit(result.unwrap_or_else(..))`.
LeafSubmit(p) ==
    /\ p \in DOMAIN leaves /\ leaves[p].pc = "resolved"
    /\ msgQ' = submit(msgQ, ResultMessage(p, leaves[p].fut), ReceiversOpen)
    /\ leaves' = [leaves EXCEPT ![p].pc = "done"]
    /\ UNCHANGED <<taskQ, signals, coords, dirQ, appVars>>

\* The Then coordinator up to its first await: first.signal = Some(fsignal);
\* tx.submit(*first).
ThenSubmitFirst(p) ==
    /\ IsThen(p) /\ coords[p].pc = "first"
    /\ signals' = NewSignal(signals, p \o <<1>>)
    /\ taskQ' = Append(taskQ, TaskInstance(p \o <<1>>, coords[p].tasks[1], TRUE))
    /\ coords' = [coords EXCEPT ![p].pc = "await_first"]
    /\ UNCHANGED <<leaves, chanVars, appVars>>

\* The Then coordinator without its first await.
ThenFirstNotAwaited(p) == TRUE

\* The await of the first task's release.
ThenFirstReleased(p) == Released(p \o <<1>>)

\* A Then coordinator that submits its first task a second time where it
\* should submit its second.
ThenResubmitsFirst(p) ==
    /\ IsThen(p) /\ coords[p].pc = "await_first"
    /\ ThenFirstReleased(p)
    /\ signals' = signals
    /\ taskQ' = Append(taskQ, TaskInstance(p \o <<1>>, coords[p].tasks[1], TRUE))
    /\ coords' = [coords EXCEPT ![p].pc = "await_second"]
    /\ UNCHANGED <<leaves, chanVars, appVars>>

\* The Then coordinator from release.await to its second await:
\* second.signal = Some(ssignal); tx.submit(*second).
ThenSubmitSecond(p) ==
    /\ IsThen(p) /\ coords[p].pc = "await_first"
    /\ ThenFirstReleased(p)
    /\ signals' = NewSignal(signals, p \o <<2>>)
    /\ taskQ' = Append(taskQ, TaskInstance(p \o <<2>>, coords[p].tasks[2], TRUE))
    /\ coords' = [coords EXCEPT ![p].pc = "await_second"]
    /\ UNCHANGED <<leaves, chanVars, appVars>>

\* An await of the second release that returns only when the sender has
\* fired: a dropped sender leaves the coordinator waiting.
ThenFinishNeedsFired(p) ==
    /\ IsThen(p) /\ coords[p].pc = "await_second"
    /\ Released(p \o <<2>>) /\ signals[p \o <<2>>] = "fired"
    /\ signals' = SendSignal(signals, [path |-> p, signal |-> coords[p].signal])
    /\ coords' = [coords EXCEPT ![p].pc = "done"]
    /\ UNCHANGED <<taskQ, leaves, chanVars, appVars>>

\* The Then coordinator after the second release: signal.map(|s| s.send(())).
ThenFinish(p) ==
    /\ IsThen(p) /\ coords[p].pc = "await_second"
    /\ Released(p \o <<2>>)
    /\ signals' = SendSignal(signals, [path |-> p, signal |-> coords[p].signal])
    /\ coords' = [coords EXCEPT ![p].pc = "done"]
    /\ UNCHANGED <<taskQ, leaves, chanVars, appVars>>

\* A submit loop that stops after its first member.
BatchSubmitFirstOnly(p) ==
    /\ IsBatch(p) /\ coords[p].pc = "submit"
    /\ signals' = NewSignal(signals, p \o <<1>>)
    /\ taskQ' = Append(taskQ, TaskInstance(p \o <<1>>, coords[p].tasks[1], TRUE))
    /\ coords' = [coords EXCEPT ![p].idx = 1, ![p].pc = "await"]
    /\ UNCHANGED <<leaves, chanVars, appVars>>

\* One iteration of `for mut t in tasks`: t.signal = Some(tsignal);
\* tx.submit(t); releases.push(release).
BatchSubmit(p) ==
    /\ IsBatch(p) /\ coords[p].pc = "submit"
    /\ LET i == coords[p].idx IN
       /\ i <= Len(coords[p].tasks)
       /\ signals' = NewSignal(signals, p \o <<i>>)
       /\ taskQ' = Append(taskQ, TaskInstance(p \o <<i>>, coords[p].tasks[i], TRUE))
       /\ coords' = [coords EXCEPT ![p].idx = IF i = Len(coords[p].tasks) THEN 1 ELSE i + 1,
                                   ![p].pc = IF i = Len(coords[p].tasks)
                                             THEN "await" ELSE "submit"]
    /\ UNCHANGED <<leaves, chanVars, appVars>>

\* One iteration of `for release in releases { release.await }`.
BatchAwait(p) ==
    /\ IsBatch(p) /\ coords[p].pc = "await"
    /\ coords[p].idx <= Len(coords[p].tasks)
    /\ Released(p \o <<coords[p].idx>>)
    /\ coords' = [coords EXCEPT ![p].idx = @ + 1]
    /\ UNCHANGED <<taskQ, signals, leaves, chanVars, appVars>>

\* A Batch coordinator that signals after the release of its first member.
BatchFinishAfterFirst(p) ==
    /\ IsBatch(p) /\ coords[p].pc = "await"
    /\ coords[p].idx > 1
    /\ signals' = SendSignal(signals, [path |-> p, signal |-> coords[p].signal])
    /\ coords' = [coords EXCEPT ![p].pc = "done"]
    /\ UNCHANGED <<taskQ, leaves, chanVars, appVars>>

\* The Batch coordinator after its last release: signal.map(|s| s.send(())).
BatchFinish(p) ==
    /\ IsBatch(p) /\ coords[p].pc = "await"
    /\ coords[p].idx > Len(coords[p].tasks)
    /\ signals' = SendSignal(signals, [path |-> p, signal |-> coords[p].signal])
    /\ coords' = [coords EXCEPT ![p].pc = "done"]
    /\ UNCHANGED <<taskQ, leaves, chanVars, appVars>>

Leaf ==
    /\ \E p \in DOMAIN leaves : LeafResolve(p) \/ LeafSubmit(p) \/ LeafPanic(p)
    /\ UNCHANGED runVars

ThenCoordinator ==
    /\ \E p \in DOMAIN coords :
          ThenSubmitFirst(p) \/ ThenSubmitSecond(p) \/ ThenFinish(p)
    /\ UNCHANGED runVars

BatchCoordinator ==
    /\ \E p \in DOMAIN coords : BatchSubmit(p) \/ BatchAwait(p) \/ BatchFinish(p)
    /\ UNCHANGED runVars

EmptyMap == [x \in {} |-> None]

\* Largest number of tasks handed to the pool from outside it.
MaxRoots == MaxSteps + 1

\* The paths a task instance can have under the root submissions R.
PathsOf(R) == {<<r>> \o s : r \in R, s \in SeqsUpTo(1..2, MaxLeaves - 1)}

PathUniverse == PathsOf(1..MaxRoots)

\* The paths of the one tree of a pool on its own.
PoolPaths == PathsOf({1})

\* A pool on its own: one task tree in the mailbox of an otherwise idle pool,
\* the Message and Directive receivers open and never read.
InitPool ==
    /\ \E t \in TaskTrees(PoolLeaves, MaxLeaves) :
          taskQ = <<TaskInstance(<<1>>, t, FALSE)>>
    /\ signals = EmptyMap
    /\ leaves = EmptyMap
    /\ coords = EmptyMap
    /\ msgQ = <<>>
    /\ dirQ = <<>>
    /\ app = "none"
    /\ appPc = "Running"
    /\ initial_task = None
    /\ state = None
    /\ appLabels = <<>>
    /\ sentElems = <<>>
    /\ sentCloses = <<>>
    /\ nRoots = 1
    /\ nSteps = 0
    /\ nInputs = 0
    /\ stepSends = <<>>
    /\ backendTrace = <<>>
    /\ InitRunVars

NextPool == PoolRecv \/ Leaf \/ ThenCoordinator \/ BatchCoordinator

SpecPool == InitPool /\ [][NextPool]_vars

\* The scheduler of the runtime polls every spawned task that is ready, and
\* the leaves of SpecPool all return: each step of the pool loop, of a leaf
\* and of a coordinator that stays possible is eventually taken.
FairPool ==
    /\ WF_vars(PoolRecv)
    /\ WF_vars(Leaf)
    /\ WF_vars(ThenCoordinator)
    /\ WF_vars(BatchCoordinator)

FairSpecPool == SpecPool /\ FairPool

\* The leaves of the trees handed to a pool whose leaves may misbehave: a
\* future that returns Ok or Err, one that never returns, one that panics.
FaultLeaves == {Simple("ok"), Simple("err"), Simple("never"), Simple("panic")}

\* A pool on its own with one task tree of such leaves in its mailbox.
InitFaults ==
    /\ \E t \in TaskTrees(FaultLeaves, MaxLeaves - 1) :
          taskQ = <<TaskInstance(<<1>>, t, FALSE)>>
    /\ signals = EmptyMap
    /\ leaves = EmptyMap
    /\ coords = EmptyMap
    /\ msgQ = <<>>
    /\ dirQ = <<>>
    /\ app = "none"
    /\ appPc = "Running"
    /\ initial_task = None
    /\ state = None
    /\ appLabels = <<>>
    /\ sentElems = <<>>
    /\ sentCloses = <<>>
    /\ nRoots = 1
    /\ nSteps = 0
    /\ nInputs = 0
    /\ stepSends = <<>>
    /\ backendTrace = <<>>
    /\ InitRunVars

SpecFaults == InitFaults /\ [][NextPool]_vars

FairSpecFaults == SpecFaults /\ FairPool

\* The leaves of the trees whose futures all end: with Ok, with Err, or by
\* a panic.
TerminatingLeaves == {Simple("ok"), Simple("err"), Simple("panic")}

\* A pool on its own with one task tree of such leaves in its mailbox.
InitTerminating ==
    /\ \E t \in TaskTrees(TerminatingLeaves, MaxLeaves) :
          taskQ = <<TaskInstance(<<1>>, t, FALSE)>>
    /\ signals = EmptyMap
    /\ leaves = EmptyMap
    /\ coords = EmptyMap
    /\ msgQ = <<>>
    /\ dirQ = <<>>
    /\ app = "none"
    /\ appPc = "Running"
    /\ initial_task = None
    /\ state = None
    /\ appLabels = <<>>
    /\ sentElems = <<>>
    /\ sentCloses = <<>>
    /\ nRoots = 1
    /\ nSteps = 0
    /\ nInputs = 0
    /\ stepSends = <<>>
    /\ backendTrace = <<>>
    /\ InitRunVars

SpecTerminating == InitTerminating /\ [][NextPool]_vars

FairSpecTerminating == SpecTerminating /\ FairPool

\* The Submitter handles of the pool's task mailbox that are alive: the
\* pool's own field `submitter`, `tasks` of jobs and the server task, and the
\* clone `tx` of every coordinator that has not finished.
TaskSubmitters ==
    1 + (IF appPc \in {"Spawned", "Running"} THEN 1 ELSE 0)
      + Cardinality({q \in DOMAIN coords : coords[q].pc # "done"})

\* self.server.recv() yields Err, which ends `while let Ok(task) = ..`: the
\* mailbox is empty and no Submitter of it is left.
RecvClosed == taskQ = <<>> /\ TaskSubmitters = 0

\* The leaves of the trees handed to a pool whose Directive mailbox may be
\* closed.
DirectiveLeaves ==
    {Special(SpecialNone), Special(SpecialStop), Special(SpecialResetState),
     Special(SpecialSubmit(Widget(Some("b")))), Special(SpecialClose("a")),
     Simple("ok")}

\* A pool on its own with one task tree in its mailbox, while the loop
\* runs (receivers open) or after it has stopped (receivers dropped).
InitDirectives ==
    /\ \E t \in TaskTrees(DirectiveLeaves, MaxLeaves - 1) :
          taskQ = <<TaskInstance(<<1>>, t, FALSE)>>
    /\ signals = EmptyMap
    /\ leaves = EmptyMap
    /\ coords = EmptyMap
    /\ msgQ = <<>>
    /\ dirQ = <<>>
    /\ app = "none"
    /\ appPc \in {"Running", "Stopped"}
    /\ initial_task = None
    /\ state = None
    /\ appLabels = <<>>
    /\ sentElems = <<>>
    /\ sentCloses = <<>>
    /\ nRoots = 1
    /\ nSteps = 0
    /\ nInputs = 0
    /\ stepSends = <<>>
    /\ backendTrace = <<>>
    /\ InitRunVars

SpecDirectives == InitDirectives /\ [][NextPool]_vars

(* --------------------- parts followed on their own --------------------- *)

\* No Application and no pool: empty mailboxes, nothing spawned; a names the
\* part that is followed.
Idle(a) ==
    /\ taskQ = <<>>
    /\ signals = EmptyMap
    /\ leaves = EmptyMap
    /\ coords = EmptyMap
    /\ msgQ = <<>>
    /\ dirQ = <<>>
    /\ app = a
    /\ appPc = "Failed"
    /\ state = None
    /\ appLabels = <<>>
    /\ sentElems = <<>>
    /\ sentCloses = <<>>
    /\ nRoots = 0
    /\ nSteps = 0
    /\ nInputs = 0
    /\ stepSends = <<>>
    /\ backendTrace = <<>>
    /\ backendPc = "None"
    /\ interrupted = FALSE
    /\ runResult = None
    /\ firstDone = None
    /\ mailbox = None

(* ------------------------ Element on its own --------------------------- *)

\* element.into_list() is called on the element at hand.
IntoList ==
    /\ app = "element"
    /\ returned' = Some([op |-> "into_list", value |-> into_list(elementIn[1])])
    /\ UNCHANGED <<poolVars, chanVars, appVars, backendPc, interrupted, runResult,
                   firstDone, mailbox, extVars>>

\* element.labels() is called on the element at hand.
LabelsOf ==
    /\ app = "element"
    /\ returned' = Some([op |-> "labels", value |-> labels(elementIn[1])])
    /\ UNCHANGED <<poolVars, chanVars, appVars, backendPc, interrupted, runResult,
                   firstDone, mailbox, extVars>>

\* Any element, before either function is called on it.
InitElement ==
    /\ Idle("element")
    /\ initial_task = None
    /\ returned = None
    /\ elementIn \in {Some(e) : e \in ListElements}
    /\ backendState = None

NextElement == IntoList \/ LabelsOf

SpecElement == InitElement /\ [][NextElement]_vars

(* --------------------------- Executable tasks -------------------------- *)

\* enum Status of task.rs, without the JoinHandle of TaskRunning: the handle
\* of the task executed at path p is named by p.
TaskRunning == "TaskRunning"

TaskAskedForStop == "TaskAskedForStop"

\* TaskHandle::SpecialStop, as Task::stop() makes it.
stop == Special(SpecialStop)

\* What one call of execute leaves: the Status it returns and the tasks it
\* has spawned on the runtime, payloads and coordinators.
Executed(status, ls, cs) == [status |-> status, leaves |-> ls, coords |-> cs]

\* SimpleTask::execute: runtime.spawn of the payload; always TaskRunning.
executeSimple(t, p) ==
    Executed(TaskRunning,
             p :> [pc |-> "running", fut |-> t.fut, signal |-> FALSE],
             EmptyMap)

\* A ThenTask::execute that spawns its coordinator and returns TaskRunning
\* whatever the Status of its first task.
executeThenAnyway(f, t, p) ==
    Executed(TaskRunning, f.leaves,
             f.coords @@ (p :> [kind |-> "Then", pc |-> "await_first", idx |-> 1,
                                tasks |-> <<t.first, t.second>>, signal |-> FALSE,
                                second |-> "pending"]))

\* ThenTask::execute after self.first.execute(..) has returned f: it returns
\* TaskAskedForStop at once, or spawns the coordinator that holds the
\* handle of the first task and the second task.
executeThen(f, t, p) ==
    IF f.status = TaskAskedForStop
    THEN Executed(TaskAskedForStop, f.leaves, f.coords)
    ELSE Executed(TaskRunning, f.leaves,
                  f.coords @@ (p :> [kind |-> "Then", pc |-> "await_first", idx |-> 1,
                                     tasks |-> <<t.first, t.second>>, signal |-> FALSE,
                                     second |-> "pending"]))

\* BatchTask::execute after its loop over the members has ended with the
\* Status of ms: it returns TaskAskedForStop, the handles pushed so far
\* dropped, or spawns the coordinator that joins every handle.
executeBatch(ms, t, p) ==
    IF ms.status = TaskAskedForStop
    THEN Executed(TaskAskedForStop, ms.leaves, ms.coords)
    ELSE Executed(TaskRunning, ms.leaves,
                  ms.coords @@ (p :> [kind |-> "Batch", pc |-> "await", idx |-> 1,
                                      tasks |-> t.tasks, signal |-> FALSE]))

RECURSIVE execute(_, _)
RECURSIVE executeMembers(_, _, _)
\* `for task in self.tasks` of BatchTask::execute from member i on: each
\* member is executed in turn, and the loop returns at the first member that
\* asks for stop, after the members before it have been spawned.
executeMembers(ts, p, i) ==
    IF i > Len(ts)
    THEN Executed(TaskRunning, EmptyMap, EmptyMap)
    ELSE LET m == execute(ts[i], p \o <<i>>) IN
         IF m.status = TaskAskedForStop
         THEN m
         ELSE LET rest == executeMembers(ts, p, i + 1) IN
              Executed(rest.status, m.leaves @@ rest.leaves, m.coords @@ rest.coords)

\* Task::execute of the task t at path p.
execute(t, p) ==
    CASE t.handle = "Special" -> Executed(TaskAskedForStop, EmptyMap, EmptyMap)
      [] t.handle = "Simple" -> executeSimple(t, p)
      [] t.handle = "Then" -> executeThen(execute(t.first, p \o <<1>>), t, p)
      [] t.handle = "Batch" -> executeBatch(executeMembers(t.tasks, p, 1), t, p)

\* The JoinHandle of the task executed at x has resolved: a payload has
\* returned or panicked, a coordinator has returned.
Joined(x) ==
    \/ x \in DOMAIN leaves /\ leaves[x].pc \in {"done", "panicked"}
    \/ x \in DOMAIN coords /\ coords[x].pc = "done"

\* It has resolved with a JoinError: the task panicked.
JoinFailed(x) == x \in DOMAIN leaves /\ leaves[x].pc = "panicked"

\* Client::send_no_result(message) while the Server of the channel lives.
send_no_result(q, message) == Append(q, message)

\* The caller of examples/hej.rs: task.execute(handle, client, on_err).
CallerExecutes ==
    /\ app = "exec" /\ initial_task # None /\ returned = None
    /\ LET r == execute(initial_task[1], <<1>>) IN
       /\ leaves' = r.leaves
       /\ coords' = r.coords
       /\ returned' = Some([op |-> "execute", task |-> initial_task[1],
                            status |-> r.status])
    /\ initial_task' = None
    /\ UNCHANGED <<taskQ, signals, chanVars, app, appPc, state, appLabels, sentElems,
                   sentCloses, nRoots, nSteps, nInputs, stepSends, backendTrace,
                   backendPc, interrupted, runResult, firstDone, mailbox, extVars>>

\* A payload that sends its success value to the client as well.
PayloadEndsSendsOk(p) ==
    /\ app = "exec"
    /\ p \in DOMAIN leaves /\ leaves[p].pc = "running"
    /\ leaves[p].fut \in {"ok", "err", "panic"}
    /\ leaves' = [leaves EXCEPT ![p].pc = IF leaves[p].fut = "panic"
                                          THEN "panicked" ELSE "done"]
    /\ msgQ' = IF leaves[p].fut = "panic"
               THEN msgQ
               ELSE send_no_result(msgQ, ResultMessage(p, leaves[p].fut))
    /\ UNCHANGED <<taskQ, signals, coords, dirQ, appVars, runVars>>

\* The task that SimpleTask::execute spawned: `if let Err(report) =
\* self.payload.await { client.send_no_result(on_err(report)) }`, or the
\* payload panics.
PayloadEnds(p) ==
    /\ app = "exec"
    /\ p \in DOMAIN leaves /\ leaves[p].pc = "running"
    /\ leaves[p].fut \in {"ok", "err", "panic"}
    /\ leaves' = [leaves EXCEPT ![p].pc = IF leaves[p].fut = "panic"
                                          THEN "panicked" ELSE "done"]
    /\ msgQ' = IF leaves[p].fut = "err"
               THEN send_no_result(msgQ, on_error(p))
               ELSE msgQ
    /\ UNCHANGED <<taskQ, signals, coords, dirQ, appVars, runVars>>

\* A coordinator that executes the second task whatever joining the first
\* has yielded.
ThenJoinFirstIgnoresError(q) ==
    /\ app = "exec"
    /\ IsThen(q) /\ coords[q].pc = "await_first"
    /\ Joined(q \o <<1>>)
    /\ LET r == execute(coords[q].tasks[2], q \o <<2>>) IN
       /\ leaves' = leaves @@ r.leaves
       /\ coords' = [coords EXCEPT
                        ![q].pc = IF r.status = TaskAskedForStop
                                  THEN "done" ELSE "await_second",
                        ![q].second = r.status] @@ r.coords
    /\ UNCHANGED <<taskQ, signals, chanVars, appVars, runVars>>

\* A coordinator that hands the stop request of its second task to the
\* caller of execute.
ThenJoinFirstRaisesStop(q) ==
    /\ app = "exec"
    /\ IsThen(q) /\ coords[q].pc = "await_first"
    /\ Joined(q \o <<1>>)
    /\ IF JoinFailed(q \o <<1>>)
       THEN /\ coords' = [coords EXCEPT ![q].pc = "done", ![q].second = "skipped"]
            /\ UNCHANGED <<leaves, returned>>
       ELSE LET r == execute(coords[q].tasks[2], q \o <<2>>) IN
            /\ leaves' = leaves @@ r.leaves
            /\ coords' = [coords EXCEPT
                             ![q].pc = IF r.status = TaskAskedForStop
                                       THEN "done" ELSE "await_second",
                             ![q].second = r.status] @@ r.coords
            /\ returned' = IF r.status = TaskAskedForStop
                           THEN Some([returned[1] EXCEPT !.status = TaskAskedForStop])
                           ELSE returned
    /\ UNCHANGED <<taskQ, signals, chanVars, appVars, backendPc, interrupted,
                   runResult, firstDone, mailbox, extVars>>

\* The coordinator of ThenTask::execute from `first.await` on: a JoinError
\* makes it return; else it executes the second task, and returns when
\* that asks for stop.
ThenJoinFirst(q) ==
    /\ app = "exec"
    /\ IsThen(q) /\ coords[q].pc = "await_first"
    /\ Joined(q \o <<1>>)
    /\ IF JoinFailed(q \o <<1>>)
       THEN /\ coords' = [coords EXCEPT ![q].pc = "done", ![q].second = "skipped"]
            /\ UNCHANGED leaves
       ELSE LET r == execute(coords[q].tasks[2], q \o <<2>>) IN
            /\ leaves' = leaves @@ r.leaves
            /\ coords' = [coords EXCEPT
                             ![q].pc = IF r.status = TaskAskedForStop
                                       THEN "done" ELSE "await_second",
                             ![q].second = r.status] @@ r.coords
    /\ UNCHANGED <<taskQ, signals, chanVars, appVars, runVars>>

\* The coordinator after the handle of the second task has resolved.
ThenJoinSecond(q) ==
    /\ app = "exec"
    /\ IsThen(q) /\ coords[q].pc = "await_second"
    /\ Joined(q \o <<2>>)
    /\ coords' = [coords EXCEPT ![q].pc = "done"]
    /\ UNCHANGED <<taskQ, signals, leaves, chanVars, appVars, runVars>>

\* The coordinator of BatchTask::execute: one iteration of `for future in
\* futures { future.await }`, and its return after the last.
BatchJoin(q) ==
    /\ app = "exec"
    /\ IsBatch(q) /\ coords[q].pc = "await"
    /\ Joined(q \o <<coords[q].idx>>)
    /\ coords' = [coords EXCEPT
                     ![q].idx = @ + 1,
                     ![q].pc = IF coords[q].idx = Len(coords[q].tasks)
                               THEN "done" ELSE "await"]
    /\ UNCHANGED <<taskQ, signals, leaves, chanVars, appVars, runVars>>

Payload == \E p \in DOMAIN leaves : PayloadEnds(p)

ExecCoordinator ==
    \E q \in DOMAIN coords : ThenJoinFirst(q) \/ ThenJoinSecond(q) \/ BatchJoin(q)

\* The leaves of the tasks handed to execute: payloads that return Ok or
\* Err or panic, and Task::stop().
ExecLeaves == {Simple("ok"), Simple("err"), Simple("panic"), stop}

\* A task built with Task::new, batch, then and stop, not yet executed; the
\* Server of the client's channel lives.
InitExec ==
    /\ Idle("exec")
    /\ initial_task \in {Some(t) : t \in TaskTrees(ExecLeaves, MaxLeaves)}
    /\ returned = None
    /\ elementIn = None
    /\ backendState = None

NextExec == CallerExecutes \/ Payload \/ ExecCoordinator

SpecExec == InitExec /\ [][NextExec]_vars

(* --------------------------- Wayland Backend --------------------------- *)

\* view().label(l).element() of the kyo crate: a View widget.
KyoView(l) == [widget |-> "View", label |-> l]

\* An element of a Views widget, whose field `views` holds Views; ls are
\* their labels.
KyoViews(ls) == [widget |-> "Views", views |-> [i \in 1..Len(ls) |-> KyoView(ls[i])]]

\* An element that downcasts neither to View nor to Views.
KyoOther == [widget |-> "Other"]

\* The elements the Wayland Backend receives.
KyoElements ==
    {KyoView(l) : l \in Labels} \cup {KyoViews(ls) : ls \in SeqsUpTo(Labels, MaxChildren)}
                                \cup {KyoOther}

\* The views of a received element, in the order the Backend visits them.
ViewsOf(e) ==
    CASE e.widget = "View" -> <<e>>
      [] e.widget = "Views" -> e.views
      [] OTHER -> <<>>

\* State::new: no view, an empty label table; `next` is the id of the next
\* surface the compositor creates, `destroyed` the ids of the surfaces
\* destroyed so far.
NewBackendState == [lut |-> EmptyMap, views |-> {}, destroyed |-> {}, next |-> 1]

\* What the visit of the views of an element leaves: the State, and the
\* local `lut` and `new_labels` of the branch.
Visited(st, lut, new_labels) == [state |-> st, lut |-> lut, new_labels |-> new_labels]

RECURSIVE VisitViews(_, _, _)
\* The visit of the views vs from index i on, after the visit v of those
\* before: `if !lut.contains_key(&view.label)` a surface is created, its
\* label pushed on new_labels and its id put in the local lut, in
\* state.lut and in state.views; else nothing is done.
VisitViews(v, vs, i) ==
    IF i > Len(vs)
    THEN v
    ELSE LET l == vs[i].label
             id == v.state.next
         IN  IF l \in DOMAIN v.lut
             THEN VisitViews(v, vs, i + 1)
             ELSE VisitViews(
                    Visited([v.state EXCEPT !.lut = @ @@ (l :> id),
                                            !.views = @ \cup {id},
                                            !.next = @ + 1],
                            v.lut @@ (l :> id),
                            Append(v.new_labels, l)),
                    vs, i + 1)

\* `for (label, id) in lut { if !new_labels.contains(&label) { .. } }`: the
\* view of every label of the local lut that new_labels lacks is removed
\* from state.views and destroyed, and the label removed from state.lut.
RemoveOthers(v) ==
    LET gone == {l \in DOMAIN v.lut : ~contains(v.new_labels, l)}
        ids == {v.lut[l] : l \in gone}
    IN  [v.state EXCEPT
            !.lut = [l \in DOMAIN v.state.lut \ gone |-> v.state.lut[l]],
            !.views = @ \ ids,
            !.destroyed = @ \cup (ids \cap v.state.views)]

\* The branch `Some(element) = self.server.recv()` of WaylandBackend::run.
Receive(st, e) == RemoveOthers(VisitViews(Visited(st, st.lut, <<>>), ViewsOf(e), 1))

\* WaylandBackend::run receives one Element.
BackendReceives ==
    /\ app = "wayland"
    /\ nInputs < MaxReceived
    /\ \E e \in KyoElements :
          /\ elementIn' = Some(e)
          /\ backendState' = Receive(backendState, e)
    /\ nInputs' = nInputs + 1
    /\ UNCHANGED <<poolVars, chanVars, app, appPc, initial_task, state, appLabels,
                   sentElems, sentCloses, nRoots, nSteps, stepSends, backendTrace,
                   backendPc, interrupted, runResult, firstDone, mailbox, returned>>

\* WaylandBackend::new: the Backend before it has received an Element.
InitWayland ==
    /\ Idle("wayland")
    /\ initial_task = None
    /\ returned = None
    /\ elementIn = None
    /\ backendState = NewBackendState

NextWayland == BackendReceives

SpecWayland == InitWayland /\ [][NextWayland]_vars

(* ------------------------- Submitter and Server ------------------------ *)

Ok(v) == [ok |-> TRUE, value |-> v]

Err(e) == [ok |-> FALSE, error |-> e]

\* What is sent through the channel followed on its own.
Payloads == {"x", "y"}

\* channel(): an unbounded channel, its one Submitter and its Server.
channel == [buf |-> <<>>, submitters |-> 1, server |-> TRUE]

\* What Submitter::submit returns: self.tx.send(v).map_err(Report::msg);
\* the send fails once the receiving half is dropped.
SubmitResult(box) == IF box.server THEN Ok("()") ELSE Err("channel closed")

\* What Server::recv returns when it returns:
\* self.rx.recv().await.ok_or_eyre("Channel Closed"); rx.recv() yields the
\* oldest waiting value, and None once no value waits and no sender is left.
RecvResult(box) ==
    IF box.buf # <<>> THEN Ok(Head(box.buf)) ELSE Err("Channel Closed")

\* rx.recv().await returns: a value waits, or no sender is left.
RecvReady(box) == box.buf # <<>> \/ box.submitters = 0

\* Submitter::submit(v) by one of the live Submitters.
ChanSubmit ==
    /\ app = "channel" /\ mailbox.submitters > 0
    /\ Len(mailbox.buf) < MaxBuffered
    /\ \E v \in Payloads :
          mailbox' = [mailbox EXCEPT !.buf = submit(mailbox.buf, v, mailbox.server)]
    /\ returned' = Some([op |-> "submit", result |-> SubmitResult(mailbox)])
    /\ UNCHANGED <<poolVars, chanVars, appVars, backendPc, interrupted, runResult,
                   firstDone, extVars>>

\* Server::recv().await returns.
ChanRecv ==
    /\ app = "channel" /\ mailbox.server
    /\ RecvReady(mailbox)
    /\ mailbox' = [mailbox EXCEPT !.buf = IF @ = <<>> THEN @ ELSE Tail(@)]
    /\ returned' = Some([op |-> "recv", result |-> RecvResult(mailbox)])
    /\ UNCHANGED <<poolVars, chanVars, appVars, backendPc, interrupted, runResult,
                   firstDone, extVars>>

\* Submitter::clone
ChanClone ==
    /\ app = "channel"
    /\ mailbox.submitters > 0 /\ mailbox.submitters < MaxSubmitters
    /\ mailbox' = [mailbox EXCEPT !.submitters = @ + 1]
    /\ UNCHANGED <<poolVars, chanVars, appVars, backendPc, interrupted, runResult,
                   firstDone, returned, extVars>>

\* A Submitter is dropped.
ChanDropSubmitter ==
    /\ app = "channel" /\ mailbox.submitters > 0
    /\ mailbox' = [mailbox EXCEPT !.submitters = @ - 1]
    /\ UNCHANGED <<poolVars, chanVars, appVars, backendPc, interrupted, runResult,
                   firstDone, returned, extVars>>

\* The Server is dropped, with what waits in it.
ChanDropServer ==
    /\ app = "channel" /\ mailbox.server
    /\ mailbox' = [mailbox EXCEPT !.server = FALSE, !.buf = <<>>]
    /\ UNCHANGED <<poolVars, chanVars, appVars, backendPc, interrupted, runResult,
                   firstDone, returned, extVars>>

(* ----------------------------- Application ---------------------------- *)

\* The Messages the loop can be given.
Messages ==
    {InputMessage} \cup {OkMessage(p) : p \in PathUniverse}
                   \cup {on_error(p) : p \in PathUniverse}

\* The user State: what view renders from it, how many times update has
\* been applied to it since the factory made it, and the Message of the last
\* update when update keeps it.
State ==
    [view : Elements, updates : 0..MaxSteps,
     last : {None} \cup {Some(m) : m \in Messages}]

\* (self.state)(): the state factory.
FactoryState ==
    [view |-> Container(<<Widget(Some("a")), Widget(Some("b"))>>), updates |-> 0,
     last |-> None]

\* struct State of examples/basic.rs; State::default.
BasicDefault == [top |-> TRUE]

\* State::render of examples/basic.rs
render(s) ==
    LET elements == <<Widget(Some("bar.bottom"))>> IN
    IF s.top
    THEN Container(Append(elements, Widget(Some("bar.top"))))
    ELSE Container(elements)

\* struct State {} of examples/empty_backend.rs; State::default.
EmptyDefault == [unit |-> TRUE]

\* State::view of examples/empty_backend.rs: empty().element()
view(s) == Widget(None)

\* (self.state)(): the state factory of Application a.
Factory(a) ==
    CASE a = "basic" -> BasicDefault
      [] a = "empty" -> EmptyDefault
      [] OTHER -> FactoryState

\* (self.view)(&state)
View(s) ==
    CASE "top" \in DOMAIN s -> render(s)
      [] "unit" \in DOMAIN s -> view(s)
      [] OTHER -> s.view

\* Backend::new(msg_submitter) of the Backend that Application a runs with:
\* EmptyBackend::new always returns Ok(Self {..}); another Backend may fail.
BackendNew(a) == IF a = "empty" THEN {"Ok"} ELSE {"Ok", "Err"}

\* The loop of Application a is followed through MaxSteps Message steps at
\* most, unless a gives it finitely many Messages by itself.
Capped(a) == a # "empty"

\* The leaves of the tasks update returns and .task() configures.
AppLeaves ==
    {Simple("ok"), Special(SpecialNone), Special(SpecialStop),
     Special(SpecialResetState), Special(SpecialSubmit(Widget(Some("b")))),
     Special(SpecialClose("a"))}

\* Application "loop": update keeps its Message in the State, leaves any of
\* three views and returns any leaf task (sequences and batches are followed
\* in SpecPool).
LoopViews ==
    {FactoryState.view, Container(<<Widget(Some("a"))>>), Widget(None)}

LoopTasks == TaskTrees(AppLeaves, 1)

\* Application "render": update leaves any view and returns Task::none() or
\* a leaf that yields a Message.
RenderViews == Elements

RenderTasks == {Special(SpecialNone), Simple("ok")}

\* Application "run": update keeps the view and returns Task::none(),
\* Task::stop() or a leaf that yields a Message.
RunViews == {FactoryState.view}

RunTasks == {Special(SpecialNone), Special(SpecialStop), Simple("ok")}

\* a.then(b)
then(a, b) == Then(a, b)

\* Application "compose": update keeps the view and returns a sequence of a
\* leaf that yields a Message and a ResetState, or a batch of inert tasks.
ComposeViews == {FactoryState.view}

ComposeTasks ==
    {then(Simple("ok"), Special(SpecialResetState)),
     Batch(<<Special(SpecialNone), Special(SpecialNone)>>)}

\* State::update of examples/basic.rs: the State it leaves and the Task it
\* returns.
update(s, message) ==
    CASE message.body = "Nothing" ->
            [state |-> [s EXCEPT !.top = FALSE], task |-> Special(SpecialNone)]
      [] message.body = "Stop" -> [state |-> s, task |-> Special(SpecialStop)]
      [] message.body = "Open" ->
            [state |-> s,
             task |-> then(then(Special(SpecialSubmit(Widget(Some("bar.left")))),
                                wait("1000ms", "Nothing")),
                           Special(SpecialClose("bar.left")))]

\* An update that answers Message::Stop with Task::none().
EmptyUpdateIgnoresStop(s, message) ==
    CASE message.body = "Stop" -> [state |-> s, task |-> Special(SpecialNone)]
      [] message.body = "Nothing" ->
            [state |-> s, task |-> then(Simple("err"), wait("1000ms", "Stop"))]
      [] message.body = "Error" -> [state |-> s, task |-> msg("Stop")]

\* State::update of examples/empty_backend.rs, with Task::new(async { ..
\* Err(..) }) the leaf whose future returns an error.
EmptyUpdate(s, message) ==
    CASE message.body = "Stop" -> [state |-> s, task |-> Special(SpecialStop)]
      [] message.body = "Nothing" ->
            [state |-> s, task |-> then(Simple("err"), wait("1000ms", "Stop"))]
      [] message.body = "Error" -> [state |-> s, task |-> msg("Stop")]

\* (self.update)(&mut state, message): the State it leaves and the Task it
\* returns.
Update(a, s, message) ==
    IF a = "basic" THEN {update(s, message)} ELSE
    IF a = "empty" THEN {EmptyUpdate(s, message)} ELSE
    {[state |-> [view |-> v, updates |-> s.updates + 1,
                 last |-> IF a = "render" THEN None ELSE Some(message)],
      task |-> t] :
        v \in CASE a = "render" -> RenderViews
               [] a = "run" -> RunViews
               [] a = "compose" -> ComposeViews
               [] OTHER -> LoopViews,
        t \in CASE a = "render" -> RenderTasks
               [] a = "run" -> RunTasks
               [] a = "compose" -> ComposeTasks
               [] OTHER -> LoopTasks}

\* The labels whose sends to the Backend are followed through a whole run:
\* "bar.left" of examples/basic.rs, none for the other Applications.
Followed == IF app = "basic" THEN {"bar.left"} ELSE {}

\* The sends of one step to backend.submitter() and backend.closer() that
\* concern a followed label, appended to the trace in the order of the sends.
Traced(trace, elems, closes) ==
    LET HasFollowed(e) == \E i \in 1..Len(labels(e)) :
                              labels(e)[i] # None /\ labels(e)[i][1] \in Followed
        IsFollowed(l) == l \in Followed
        es == SelectSeq(elems, HasFollowed)
        cs == SelectSeq(closes, IsFollowed)
    IN  trace \o [i \in 1..Len(es) |-> [op |-> "Submit", labels |-> labels(es[i])]]
              \o [i \in 1..Len(cs) |-> [op |-> "Close", label |-> cs[i]]]

\* One send to backend.submitter() for each element of elems.
Submitter(elems) == [i \in 1..Len(elems) |-> "submitter"]

\* One send to backend.closer() for each label of closes.
Closer(closes) == [i \in 1..Len(closes) |-> "closer"]

\* The label diff with the two label lists exchanged.
ClosedLabelsReversed(old, new) ==
    LET Added(l) == ~contains(old, l) /\ l # None
        sel == SelectSeq(new, Added)
    IN  [i \in 1..Len(sel) |-> sel[i][1]]

\* The label diff without the test of the new labels.
ClosedLabelsAll(old, new) ==
    LET Labelled(l) == l # None
        sel == SelectSeq(old, Labelled)
    IN  [i \in 1..Len(sel) |-> sel[i][1]]

\* A label diff that stops at the first label it closes.
ClosedLabelsFirstOnly(old, new) ==
    LET Removed(l) == ~contains(new, l) /\ l # None
        sel == SelectSeq(old, Removed)
    IN  [i \in 1..(IF Len(sel) > 1 THEN 1 ELSE Len(sel)) |-> sel[i][1]]

\* The close requests of a Message step, in the order they are sent:
\* `for label in labels { if !new_labels.contains(&label) { if let
\* Some(label) = label { backend_closer.submit(label) } } }`.
ClosedLabels(old, new) ==
    LET Removed(l) == ~contains(new, l) /\ l # None
        sel == SelectSeq(old, Removed)
    IN  [i \in 1..Len(sel) |-> sel[i][1]]

\* A jobs that reports the error of Backend::new and spawns the server task
\* all the same.
JobsSpawnsOnError ==
    /\ appPc = "New"
    /\ IF initial_task = None
       THEN UNCHANGED <<taskQ, nRoots>>
       ELSE /\ taskQ' = Append(taskQ, TaskInstance(<<1>>, initial_task[1], FALSE))
            /\ nRoots' = 1
    /\ state' = Factory(app)
    /\ appPc' = "Spawned" /\ UNCHANGED chanVars
    /\ \/ backendPc' = "Running" /\ UNCHANGED runResult
       \/ /\ runResult' = Some([by |-> "jobs", result |-> "Err"])
          /\ UNCHANGED backendPc
    /\ UNCHANGED <<signals, leaves, coords, app, initial_task, appLabels, sentElems,
                   sentCloses, nSteps, nInputs, stepSends, backendTrace,
                   interrupted, firstDone, mailbox, returned, extVars>>

\* Application::jobs up to the spawn of the server task: the initial task is
\* submitted, the State is made, Backend::new succeeds or fails (`?`).
Jobs ==
    /\ appPc = "New"
    /\ IF initial_task = None
       THEN UNCHANGED <<taskQ, nRoots>>
       ELSE /\ taskQ' = Append(taskQ, TaskInstance(<<1>>, initial_task[1], FALSE))
            /\ nRoots' = 1
    /\ state' = Factory(app)
    /\ \/ /\ "Ok" \in BackendNew(app)
          /\ appPc' = "Spawned" /\ UNCHANGED chanVars
          /\ backendPc' = "Running" /\ UNCHANGED runResult
       \/ /\ "Err" \in BackendNew(app)
          /\ appPc' = "Failed" /\ msgQ' = <<>> /\ dirQ' = <<>>
          /\ runResult' = Some([by |-> "jobs", result |-> "Err"])
          /\ UNCHANGED backendPc
    /\ UNCHANGED <<signals, leaves, coords, app, initial_task, appLabels, sentElems,
                   sentCloses, nSteps, nInputs, stepSends, backendTrace,
                   interrupted, firstDone, mailbox, returned, extVars>>

\* A server task that enters its loop without the initial render.
ServerStartNoRender ==
    /\ appPc = "Spawned"
    /\ appLabels' = <<>>
    /\ appPc' = "Running"
    /\ UNCHANGED <<poolVars, chanVars, app, initial_task, state, sentElems,
                   sentCloses, nRoots, nSteps, nInputs, stepSends, backendTrace,
                   runVars>>

\* The server task before its loop: the initial render and its submission.
ServerStart ==
    /\ appPc = "Spawned"
    /\ LET element == View(state) IN
       /\ appLabels' = labels(element)
       /\ sentElems' = <<element>>
       /\ backendTrace' = Traced(backendTrace, <<element>>, <<>>)
    /\ sentCloses' = <<>>
    /\ stepSends' = <<"submitter">>
    /\ appPc' = "Running"
    /\ UNCHANGED <<poolVars, chanVars, app, initial_task, state, nRoots, nSteps,
                   nInputs, runVars>>

\* A Message branch in which a waiting ResetState takes effect between
\* update and the storing of the labels.
AppMessageWithReset ==
    /\ appPc = "Running"
    /\ msgQ # <<>>
    /\ Capped(app) => nSteps < MaxSteps
    /\ \E r \in Update(app, state, Head(msgQ)) :
          LET reset == dirQ # <<>> /\ Head(dirQ) = DirectiveResetState
              after == IF reset THEN FactoryState ELSE r.state
              element == View(after)
              new_labels == labels(element)
          IN  /\ state' = after
              /\ dirQ' = IF reset THEN Tail(dirQ) ELSE dirQ
              /\ taskQ' = Append(taskQ, TaskInstance(<<nRoots + 1>>, r.task, FALSE))
              /\ sentElems' = <<element>>
              /\ sentCloses' = ClosedLabels(appLabels, new_labels)
              /\ stepSends' = <<"tasks", "submitter">> \o Closer(sentCloses')
              /\ backendTrace' = Traced(backendTrace, sentElems', sentCloses')
              /\ appLabels' = new_labels
    /\ msgQ' = Tail(msgQ)
    /\ nRoots' = nRoots + 1
    /\ nSteps' = nSteps + 1
    /\ UNCHANGED <<signals, leaves, coords, app, appPc, initial_task, nInputs,
                   runVars>>

\* A Message branch that sends the close requests of the diff before it
\* submits the new Element.
AppMessageClosesFirst ==
    /\ appPc = "Running"
    /\ msgQ # <<>>
    /\ Capped(app) => nSteps < MaxSteps
    /\ \E r \in Update(app, state, Head(msgQ)) :
          /\ state' = r.state
          /\ taskQ' = Append(taskQ, TaskInstance(<<nRoots + 1>>, r.task, FALSE))
          /\ LET element == View(r.state)
                 new_labels == labels(element)
             IN  /\ sentElems' = <<element>>
                 /\ sentCloses' = ClosedLabels(appLabels, new_labels)
                 /\ stepSends' = <<"tasks">> \o Closer(sentCloses') \o <<"submitter">>
                 /\ backendTrace' = Traced(backendTrace, sentElems', sentCloses')
                 /\ appLabels' = new_labels
    /\ msgQ' = Tail(msgQ)
    /\ nRoots' = nRoots + 1
    /\ nSteps' = nSteps + 1
    /\ UNCHANGED <<signals, leaves, coords, dirQ, app, appPc, initial_task, nInputs,
                   runVars>>

\* The Message branch of the loop's select!.
AppMessage ==
    /\ appPc = "Running"
    /\ msgQ # <<>>
    /\ Capped(app) => nSteps < MaxSteps
    /\ \E r \in Update(app, state, Head(msgQ)) :
          /\ state' = r.state
          /\ taskQ' = Append(taskQ, TaskInstance(<<nRoots + 1>>, r.task, FALSE))
          /\ LET element == View(r.state)
                 new_labels == labels(element)
             IN  /\ sentElems' = <<element>>
                 /\ sentCloses' = ClosedLabels(appLabels, new_labels)
                 /\ stepSends' = <<"tasks", "submitter">> \o Closer(sentCloses')
                 /\ backendTrace' = Traced(backendTrace, sentElems', sentCloses')
                 /\ appLabels' = new_labels
    /\ msgQ' = Tail(msgQ)
    /\ nRoots' = nRoots + 1
    /\ nSteps' = nSteps + 1
    /\ UNCHANGED <<signals, leaves, coords, dirQ, app, appPc, initial_task, nInputs,
                   runVars>>

\* A loop that ignores Directive::Stop.
StopIgnored ==
    /\ dirQ' = Tail(dirQ)
    /\ sentElems' = <<>> /\ sentCloses' = <<>>
    /\ UNCHANGED <<msgQ, appPc, state>>

\* ApplicationDirective::Stop => break: the server task ends with Ok(()) and
\* drops its receivers with what they hold.
StopArm ==
    /\ appPc' = "Stopped"
    /\ msgQ' = <<>> /\ dirQ' = <<>>
    /\ sentElems' = <<>> /\ sentCloses' = <<>>
    /\ UNCHANGED state

\* A ResetState arm that keeps the State.
ResetStateKept ==
    /\ dirQ' = Tail(dirQ)
    /\ sentElems' = <<>> /\ sentCloses' = <<>>
    /\ UNCHANGED <<msgQ, appPc, state>>

\* A ResetState arm that renders the new State and submits the render.
ResetStateArmRenders ==
    /\ state' = Factory(app)
    /\ dirQ' = Tail(dirQ)
    /\ sentElems' = <<View(Factory(app))>> /\ sentCloses' = <<>>
    /\ UNCHANGED <<msgQ, appPc>>

\* ApplicationDirective::ResetState => state = (self.state)()
ResetStateArm ==
    /\ state' = Factory(app)
    /\ dirQ' = Tail(dirQ)
    /\ sentElems' = <<>> /\ sentCloses' = <<>>
    /\ UNCHANGED <<msgQ, appPc>>

\* A Submit arm that renders the State and forwards the render.
SubmitArmRenders(element) ==
    /\ sentElems' = <<View(state)>> /\ sentCloses' = <<>>
    /\ dirQ' = Tail(dirQ)
    /\ UNCHANGED <<msgQ, appPc, state>>

\* ApplicationDirective::Submit(element) => backend_submitter.submit(element)
SubmitArm(element) ==
    /\ sentElems' = <<element>> /\ sentCloses' = <<>>
    /\ dirQ' = Tail(dirQ)
    /\ UNCHANGED <<msgQ, appPc, state>>

\* A Close arm after a select! whose dropped Message branch had already
\* taken a Message out of the mailbox.
CloseArmLosesMessage(l) ==
    /\ sentElems' = <<>> /\ sentCloses' = <<l>>
    /\ dirQ' = Tail(dirQ)
    /\ msgQ' = IF msgQ = <<>> THEN msgQ ELSE Tail(msgQ)
    /\ UNCHANGED <<appPc, state>>

\* ApplicationDirective::Close(label) => backend_closer.submit(label)
CloseArm(l) ==
    /\ sentElems' = <<>> /\ sentCloses' = <<l>>
    /\ dirQ' = Tail(dirQ)
    /\ UNCHANGED <<msgQ, appPc, state>>

\* A Directive branch that tracks the label of an element it forwards for
\* a Submit directive.
AppDirectiveTracksSubmit ==
    /\ appPc = "Running"
    /\ dirQ # <<>>
    /\ LET directive == Head(dirQ) IN
       /\ \/ directive.variant = "Stop" /\ StopArm
          \/ directive.variant = "ResetState" /\ ResetStateArm
          \/ directive.variant = "Submit" /\ SubmitArm(directive.element)
          \/ directive.variant = "Close" /\ CloseArm(directive.label)
       /\ appLabels' = IF directive.variant = "Submit"
                        THEN appLabels \o labels(directive.element)
                        ELSE appLabels
    /\ stepSends' = Submitter(sentElems') \o Closer(sentCloses')
    /\ backendTrace' = Traced(backendTrace, sentElems', sentCloses')
    /\ firstDone' = IF firstDone = None /\ appPc' = "Stopped"
                    THEN Some("server") ELSE firstDone
    /\ UNCHANGED <<poolVars, app, initial_task, nRoots, nSteps, nInputs,
                   backendPc, interrupted, runResult, mailbox, returned, extVars>>

\* The Directive branch of the loop's select!.
AppDirective ==
    /\ appPc = "Running"
    /\ dirQ # <<>>
    /\ LET directive == Head(dirQ) IN
       \/ directive.variant = "Stop" /\ StopArm
       \/ directive.variant = "ResetState" /\ ResetStateArm
       \/ directive.variant = "Submit" /\ SubmitArm(directive.element)
       \/ directive.variant = "Close" /\ CloseArm(directive.label)
    /\ stepSends' = Submitter(sentElems') \o Closer(sentCloses')
    /\ backendTrace' = Traced(backendTrace, sentElems', sentCloses')
    /\ firstDone' = IF firstDone = None /\ appPc' = "Stopped"
                    THEN Some("server") ELSE firstDone
    /\ UNCHANGED <<poolVars, app, initial_task, appLabels, nRoots, nSteps, nInputs,
                   backendPc, interrupted, runResult, mailbox, returned, extVars>>

\* The Backend emits a Message of its own through its msg_submitter.
BackendInput ==
    /\ appPc \in {"Spawned", "Running"}
    /\ backendPc = "Running"
    /\ nInputs < MaxInputs
    /\ msgQ' = submit(msgQ, InputMessage, ReceiversOpen)
    /\ nInputs' = nInputs + 1
    /\ UNCHANGED <<poolVars, dirQ, app, appPc, initial_task, state, appLabels,
                   sentElems, sentCloses, nRoots, nSteps, stepSends, backendTrace,
                   runVars>>

\* The task of backend.run() returns Ok(()) or an error.
BackendEnd ==
    /\ backendPc = "Running"
    /\ backendPc' \in {"Ok", "Err"}
    /\ firstDone' = IF firstDone = None THEN Some("backend") ELSE firstDone
    /\ UNCHANGED <<poolVars, chanVars, appVars, interrupted, runResult, mailbox,
                   returned, extVars>>

\* The interrupt signal arrives: the future of tokio::signal::ctrl_c()
\* resolves with Ok(()).
Interrupt ==
    /\ appPc \in {"Spawned", "Running", "Stopped"}
    /\ ~interrupted
    /\ interrupted' = TRUE
    /\ firstDone' = IF firstDone = None THEN Some("ctrl_c") ELSE firstDone
    /\ UNCHANGED <<poolVars, chanVars, appVars, backendPc, runResult, mailbox,
                   returned, extVars>>

\* The futures of run's select! that have resolved, each with the value its
\* branch evaluates to: pool (its receive loop has ended), server (the loop
\* has ended, on Stop, with Ok(())), backend, ctrl_c.
ResolvedBranches ==
    {[by |-> "pool", result |-> "Ok"] : x \in {1} \cap (IF RecvClosed THEN {1} ELSE {})}
    \cup {[by |-> "server", result |-> "Ok"] :
             x \in {1} \cap (IF appPc = "Stopped" THEN {1} ELSE {})}
    \cup {[by |-> "backend", result |-> backendPc] :
             x \in {1} \cap (IF backendPc \in {"Ok", "Err"} THEN {1} ELSE {})}
    \cup {[by |-> "ctrl_c", result |-> "Ok"] :
             x \in {1} \cap (IF interrupted THEN {1} ELSE {})}

\* A run that joins the server task before it looks at the other three.
RunReturnWaitsForServer ==
    /\ appPc = "Stopped"
    /\ runResult = None
    /\ \E r \in ResolvedBranches : runResult' = Some(r)
    /\ UNCHANGED <<poolVars, chanVars, appVars, backendPc, interrupted, firstDone,
                   mailbox, returned, extVars>>

\* Application::run after jobs: the select! over pool, server, backend and
\* ctrl_c completes with a branch whose future has resolved, chosen at
\* random among those that have, and run returns what that branch yields.
RunReturn ==
    /\ appPc \in {"Spawned", "Running", "Stopped"}
    /\ runResult = None
    /\ \E r \in ResolvedBranches : runResult' = Some(r)
    /\ UNCHANGED <<poolVars, chanVars, appVars, backendPc, interrupted, firstDone,
                   mailbox, returned, extVars>>

\* An Application as Application::new(..) and an optional .task(..) leave
\* it, with the user functions a and the initial tasks T.
InitApplication(a, T) ==
    /\ taskQ = <<>>
    /\ signals = EmptyMap
    /\ leaves = EmptyMap
    /\ coords = EmptyMap
    /\ msgQ = <<>>
    /\ dirQ = <<>>
    /\ app = a
    /\ appPc = "New"
    /\ initial_task \in {None} \cup {Some(t) : t \in T}
    /\ state = None
    /\ appLabels = <<>>
    /\ sentElems = <<>>
    /\ sentCloses = <<>>
    /\ nRoots = 0
    /\ nSteps = 0
    /\ nInputs = 0
    /\ stepSends = <<>>
    /\ backendTrace = <<>>
    /\ InitRunVars

InitApp == InitApplication("loop", LoopTasks)

\* The tasks of LoopTasks are leaves: no coordinator is ever spawned.
NextApp ==
    \/ Jobs \/ ServerStart \/ AppMessage \/ AppDirective \/ BackendInput
    \/ PoolRecv \/ Leaf

SpecApp == InitApp /\ [][NextApp]_vars

InitRender == InitApplication("render", RenderTasks)

\* The tasks of RenderTasks are leaves that emit no Directive.
NextRender ==
    \/ Jobs \/ ServerStart \/ AppMessage \/ BackendInput
    \/ PoolRecv \/ Leaf

SpecRender == InitRender /\ [][NextRender]_vars

\* examples/basic.rs: Application::new(State::default, State::update,
\* State::render).task(Task::msg(Message::Open)), and the same Application
\* started with either of its other two Messages.
InitBasic ==
    InitApplication("basic", {msg(m) : m \in BasicMessages}) /\ initial_task # None

\* The tasks of examples/basic.rs are leaves and sequences.
NextBasic ==
    \/ Jobs \/ ServerStart \/ AppMessage \/ AppDirective
    \/ PoolRecv \/ Leaf \/ ThenCoordinator

SpecBasic == InitBasic /\ [][NextBasic]_vars

\* examples/empty_backend.rs: Application::new(State::default,
\* State::update, State::view).task(Task::msg(Message::Nothing)), run with
\* EmptyBackend.
InitEmpty == InitApplication("empty", {msg("Nothing")}) /\ initial_task # None

\* run of that Application: jobs, the loop, the pool with its leaves and
\* sequences, and the select! that ends run.  EmptyBackend::run emits no
\* Message and does not return (it holds a Submitter of the mailbox it
\* reads); no interrupt signal is sent.
NextEmpty ==
    \/ Jobs \/ ServerStart \/ AppMessage \/ AppDirective
    \/ PoolRecv \/ Leaf \/ ThenCoordinator \/ RunReturn

SpecEmpty == InitEmpty /\ [][NextEmpty]_vars

InitRun == InitApplication("run", RunTasks)

\* Application::run: jobs, the three spawned tasks, the interrupt signal and
\* the select! that ends run.
NextRun ==
    \/ Jobs \/ ServerStart \/ AppMessage \/ AppDirective \/ BackendInput
    \/ PoolRecv \/ Leaf
    \/ BackendEnd \/ Interrupt \/ RunReturn

SpecRun == InitRun /\ [][NextRun]_vars

\* The runtime polls run's future once one of its four futures has woken it.
FairRun == WF_vars(RunReturn)

FairSpecRun == SpecRun /\ FairRun

InitCompose == InitApplication("compose", ComposeTasks)

\* The whole of Application::jobs: the loop, the Backend's Messages, the
\* pool, its leaves and the coordinators of sequences and batches.
NextCompose ==
    \/ Jobs \/ ServerStart \/ AppMessage \/ AppDirective \/ BackendInput
    \/ PoolRecv \/ Leaf \/ ThenCoordinator \/ BatchCoordinator

SpecCompose == InitCompose /\ [][NextCompose]_vars

\* A channel on its own, as channel() returns it, beside an idle pool.
InitChannel ==
    /\ taskQ = <<>>
    /\ signals = EmptyMap
    /\ leaves = EmptyMap
    /\ coords = EmptyMap
    /\ msgQ = <<>>
    /\ dirQ = <<>>
    /\ app = "channel"
    /\ appPc = "Failed"
    /\ initial_task = None
    /\ state = None
    /\ appLabels = <<>>
    /\ sentElems = <<>>
    /\ sentCloses = <<>>
    /\ nRoots = 0
    /\ nSteps = 0
    /\ nInputs = 0
    /\ stepSends = <<>>
    /\ backendTrace = <<>>
    /\ backendPc = "None"
    /\ interrupted = FALSE
    /\ runResult = None
    /\ firstDone = None
    /\ mailbox = channel
    /\ returned = None
    /\ elementIn = None
    /\ backendState = None

NextChannel ==
    ChanSubmit \/ ChanRecv \/ ChanClone \/ ChanDropSubmitter \/ ChanDropServer

\* The mailboxes: a channel on its own, with any use of its two halves, and
\* the channels of a running Application with the callers of submit.
InitMailboxes == InitChannel \/ InitRun

NextMailboxes == NextChannel \/ NextRun

SpecMailboxes == InitMailboxes /\ [][NextMailboxes]_vars

\* The runtime polls every ready task, and select! polls its branches in
\* random order: a Directive that waits is eventually taken.
FairApp ==
    /\ WF_vars(Jobs) /\ WF_vars(ServerStart) /\ WF_vars(AppDirective)
    /\ WF_vars(PoolRecv) /\ WF_vars(Leaf)

FairSpecApp == SpecApp /\ FairApp

\* The same scheduling with the coordinators of the sequences, a Message
\* that waits eventually taken, and run's future polled once woken.
FairSpecEmpty ==
    SpecEmpty /\ FairApp /\ WF_vars(ThenCoordinator) /\ WF_vars(AppMessage)
              /\ WF_vars(RunReturn)

\* The same scheduling with the coordinators of the sequences, and with a
\* Message that waits eventually taken.
FairSpecBasic ==
    SpecBasic /\ FairApp /\ WF_vars(ThenCoordinator) /\ WF_vars(AppMessage)

(* ------------------------- reading the state --------------------------- *)

IsPrefix(q, x) == Len(q) <= Len(x) /\ SubSeq(x, 1, Len(q)) = q

\* x names a node of the second task of the Then at q.
UnderSecond(x, q) == Len(x) > Len(q) /\ IsPrefix(q, x) /\ x[Len(q) + 1] = 2

QueuedPaths == {taskQ[i].path : i \in 1..Len(taskQ)}

\* The paths of the task instances that exist or have existed.
KnownPaths == QueuedPaths \cup DOMAIN leaves \cup DOMAIN coords \cup DOMAIN signals

\* The task at x has been submitted to the pool's mailbox by its coordinator.
Submitted(x) == x \in DOMAIN signals

\* The task at x has been dequeued and dispatched by the pool loop.
Dispatched(x) == Submitted(x) /\ x \notin QueuedPaths

\* How many Messages of the leaf at x were put on the Message mailbox.
Delivered(x) == Cardinality({i \in 1..Len(msgQ) : msgQ[i].leaf = x})

RECURSIVE SimplePaths(_, _)
\* The paths of the Simple leaves of tree t rooted at path p.
SimplePaths(t, p) ==
    CASE t.handle = "Simple" -> {p}
      [] t.handle = "Special" -> {}
      [] t.handle = "Then" ->
            SimplePaths(t.first, p \o <<1>>) \cup SimplePaths(t.second, p \o <<2>>)
      [] t.handle = "Batch" ->
            UNION {SimplePaths(t.tasks[i], p \o <<i>>) : i \in 1..Len(t.tasks)}

\* The Simple leaves of the task instances waiting in the pool's mailbox.
QueuedLeaves == UNION {SimplePaths(taskQ[i].handle, taskQ[i].path) : i \in 1..Len(taskQ)}

\* The sub-tasks a coordinator still holds: those it has not submitted yet.
Held(q) ==
    CASE coords[q].pc = "first" -> {1, 2}
      [] coords[q].pc = "await_first" -> {2}
      [] coords[q].pc = "submit" -> coords[q].idx..Len(coords[q].tasks)
      [] OTHER -> {}

HeldLeaves ==
    UNION {UNION {SimplePaths(coords[q].tasks[i], q \o <<i>>) : i \in Held(q)}
           : q \in DOMAIN coords}

\* Every Simple leaf there is: waiting in the mailbox inside a task, held by
\* a coordinator inside a sub-task, or spawned.
KnownLeaves == QueuedLeaves \cup HeldLeaves \cup DOMAIN leaves

(* ------------------------------ claims -------------------------------- *)

\* C1: for every dispatched then(A, B), no node of B exists in the pool (in
\* the mailbox, as a leaf, as a coordinator, or as a created completion
\* channel) unless A's completion signal has fired or been dropped.
C1_SecondAfterFirstSignal ==
    \A q \in DOMAIN coords :
        coords[q].kind = "Then" =>
            \A x \in KnownPaths : UnderSecond(x, q) => Released(q \o <<1>>)

\* C1 witness: a leaf of B is running under a Then whose first signal fired.
C1_Witness ==
    \E q \in DOMAIN coords :
        /\ coords[q].kind = "Then"
        /\ (q \o <<2>>) \in DOMAIN leaves
        /\ signals[q \o <<1>>] = "fired"

\* C2: for then(A, B) with A a Simple leaf, once B has been dequeued and
\* dispatched by the pool, A's Message is on the Message mailbox.
C2_MessageBeforeSecond ==
    \A q \in DOMAIN coords :
        (coords[q].kind = "Then" /\ coords[q].tasks[1].handle = "Simple"
            /\ Dispatched(q \o <<2>>))
        => Delivered(q \o <<1>>) >= 1

\* C3: no Simple leaf of a submitted tree is lost on the way through the
\* pool (the set of leaves is the same in every state), no leaf ever has two
\* Messages on the mailbox, and eventually every leaf has exactly one.
C3_OneMessagePerLeaf ==
    /\ [][KnownLeaves' = KnownLeaves]_vars
    /\ [](\A x \in KnownLeaves : Delivered(x) <= 1)
    /\ <>[](\A x \in KnownLeaves : Delivered(x) = 1)

\* C3 witness: a tree nesting a Batch in a Then has delivered one Message for
\* each of its three leaves.
C3_Witness ==
    /\ IsThen(<<1>>) /\ IsBatch(<<1, 1>>)
    /\ \A x \in {<<1, 1, 1>>, <<1, 1, 2>>, <<1, 2>>} : Delivered(x) = 1

RECURSIVE Nodes(_, _)
\* The nodes of tree t rooted at path p, each with its path.
Nodes(t, p) ==
    {[path |-> p, tree |-> t]} \cup
    CASE t.handle = "Then" ->
            Nodes(t.first, p \o <<1>>) \cup Nodes(t.second, p \o <<2>>)
      [] t.handle = "Batch" ->
            UNION {Nodes(t.tasks[i], p \o <<i>>) : i \in 1..Len(t.tasks)}
      [] OTHER -> {}

\* The task whose coordinator runs at q.
CoordTree(q) ==
    IF coords[q].kind = "Then"
    THEN Then(coords[q].tasks[1], coords[q].tasks[2])
    ELSE Batch(coords[q].tasks)

\* Every Then and Batch node there is: inside a task waiting in the mailbox,
\* inside a sub-task held by a coordinator, or running as a coordinator.
KnownNodes ==
    UNION {Nodes(taskQ[i].handle, taskQ[i].path) : i \in 1..Len(taskQ)}
    \cup UNION {UNION {Nodes(coords[q].tasks[i], q \o <<i>>) : i \in Held(q)}
                : q \in DOMAIN coords}
    \cup {[path |-> q, tree |-> CoordTree(q)] : q \in DOMAIN coords}

KnownBatches == {n \in KnownNodes : n.tree.handle = "Batch"}

\* The Message of the leaf at x with body b is on the Message mailbox.
OnMailbox(x, b) == \E i \in 1..Len(msgQ) : msgQ[i] = [body |-> b, leaf |-> x]

\* Member i of the Batch node n has been dispatched; if it is a leaf that
\* succeeds its Message is on the mailbox, and if it is a leaf that fails its
\* on_error Message is.
MemberServed(n, i) ==
    /\ Dispatched(n.path \o <<i>>)
    /\ n.tree.tasks[i] = Simple("ok") => OnMailbox(n.path \o <<i>>, "Msg")
    /\ n.tree.tasks[i] = Simple("err") => OnMailbox(n.path \o <<i>>, "Error")

HasFailing(n) == \E i \in 1..Len(n.tree.tasks) : n.tree.tasks[i] = Simple("err")

\* C4: every Batch with a failing Simple member ends with every member
\* dispatched, the Message of every succeeding member delivered, and the
\* on_error Message of every failing member delivered on the same mailbox.
C4_BatchFailureIsolated ==
    <>[](\A n \in KnownBatches :
            HasFailing(n) => \A i \in 1..Len(n.tree.tasks) : MemberServed(n, i))

\* C4 witness: batch(failing leaf, succeeding leaf) has delivered both the
\* on_error Message and the sibling's Message.
C4_Witness ==
    /\ IsBatch(<<1>>)
    /\ coords[<<1>>].tasks = <<Simple("err"), Simple("ok")>>
    /\ OnMailbox(<<1, 1>>, "Error") /\ OnMailbox(<<1, 2>>, "Msg")

BatchOfTwoLeaves(q) ==
    /\ IsBatch(q) /\ Len(coords[q].tasks) = 2
    /\ \A i \in 1..2 : coords[q].tasks[i].handle = "Simple"

\* The Message of leaf x is on the mailbox before the Message of leaf y.
Before(x, y) ==
    \E i, j \in 1..Len(msgQ) : i < j /\ msgQ[i].leaf = x /\ msgQ[j].leaf = y

TwoLeaves(n) ==
    Len(n.tree.tasks) = 2 /\ \A i \in 1..2 : n.tree.tasks[i].handle = "Simple"

\* C5: for batch(A, B) of two Simple leaves, both Messages are eventually on
\* the Message mailbox (both delivery orders occur: see the witnesses).
C5_BatchBothDelivered ==
    <>[](\A n \in KnownBatches :
            TwoLeaves(n) =>
                Delivered(n.path \o <<1>>) = 1 /\ Delivered(n.path \o <<2>>) = 1)

\* C5 witness: B's Message is delivered before A's.
C5_WitnessReverseOrder ==
    \E q \in DOMAIN coords : BatchOfTwoLeaves(q) /\ Before(q \o <<2>>, q \o <<1>>)

\* C5, the other order: A's Message is delivered before B's.
C5_ForwardOrder ==
    \E q \in DOMAIN coords : BatchOfTwoLeaves(q) /\ Before(q \o <<1>>, q \o <<2>>)

(* ------------------------ claims: the Application ---------------------- *)

\* A step of the loop that takes a Message.
MessageStep == nSteps' = nSteps + 1

\* A step of the loop that takes the Directive d.
DirectiveStep(d) ==
    /\ appPc = "Running" /\ dirQ # <<>> /\ Head(dirQ) = d
    /\ Len(dirQ') < Len(dirQ)

\* A Task that resolves to Stop waits in the pool's mailbox, or its Directive
\* waits in the Directive mailbox, and the loop has been or will be started.
StopPending ==
    /\ appPc \in {"Spawned", "Running"}
    /\ \/ \E i \in 1..Len(taskQ) : taskQ[i].handle = Special(SpecialStop)
       \/ \E i \in 1..Len(dirQ) : dirQ[i] = DirectiveStop

\* C6: once a Stop task is in the pool of an Application whose loop runs,
\* the loop eventually stops; and once Stopped it stays Stopped, takes no
\* Message (no update, no view, no task for the pool) and sends nothing to
\* the Backend.
C6_StopTerminates ==
    /\ StopPending ~> (appPc = "Stopped")
    /\ [][appPc = "Stopped" =>
            /\ appPc' = "Stopped"
            /\ UNCHANGED <<state, appLabels, nSteps, nRoots, sentElems, sentCloses,
                           msgQ, dirQ>>]_vars

\* C6 witness: the loop has stopped after a Message step whose task was Stop,
\* while a Message was on its way.
C6_Witness ==
    /\ appPc = "Stopped" /\ nSteps >= 1
    /\ \E p \in DOMAIN leaves : leaves[p].pc = "resolved"

\* No label occurs twice in the label list s (absent labels are not labels).
Unique(s) == \A i, j \in 1..Len(s) : (s[i] = s[j] /\ s[i] # None) => i = j

Count(s, v) == Cardinality({i \in 1..Len(s) : s[i] = v})

\* C7: in a Message step whose previous labels are unique, every label of
\* the previous render that the new render lacks gets exactly one close
\* request.
C7_RemovedLabelClosedOnce ==
    [][(MessageStep /\ Unique(appLabels)) =>
          \A l \in Labels :
              (contains(appLabels, Some(l)) /\ ~contains(appLabels', Some(l)))
              => Count(sentCloses', l) = 1]_vars

\* C7 witness: the first Message step replaced the labels a, b by b alone and
\* sent one close request, for a.
C7_Witness ==
    nSteps = 1 /\ appLabels = <<Some("b")>> /\ sentCloses = <<"a">>

\* C8: a Message step whose new labels contain every previous label (the
\* same label list in particular) sends no close request.
C8_NoCloseWhenLabelsKept ==
    [][(MessageStep /\ \A i \in 1..Len(appLabels) : contains(appLabels', appLabels[i]))
          => sentCloses' = <<>>]_vars

\* C8 witness: a Message step has rendered the label list of the render
\* before it (the factory's view, with labels a and b) and sent no close
\* request.
C8_Witness ==
    /\ nSteps = 1 /\ sentCloses = <<>>
    /\ appLabels = labels(View(FactoryState)) /\ Len(appLabels) = 2

\* C9: handling Directive::ResetState leaves the State equal to the
\* factory's; no step but that one and a Message step changes the State; and
\* a Message step that starts from the factory's State applies update to it
\* and submits the view of the result.
C9_ResetState ==
    /\ [][DirectiveStep(DirectiveResetState) => state' = FactoryState]_vars
    /\ [][(appPc = "Running" /\ ~MessageStep /\ ~DirectiveStep(DirectiveResetState))
              => state' = state]_vars
    /\ [][(MessageStep /\ state = FactoryState) =>
              state'.updates = 1 /\ sentElems' = <<View(state')>>]_vars

\* C9 witness: two Message steps were taken and the State has seen one
\* update: a reset came between them, and the view of the State was sent.
C9_Witness ==
    /\ nSteps = 2 /\ state.updates = 1
    /\ sentElems = <<View(state)>>

\* C10: before the loop has started nothing is rendered, nothing is sent to
\* the Backend and no Message or Directive is taken; jobs submits the
\* initial task, when there is one, and nothing else; the loop starts by
\* submitting the view of the factory's State, once; until the first Message
\* step the pool has been given the initial task once, or nothing.
C10_InitialTransition ==
    /\ [](appPc \in {"New", "Spawned", "Failed"} =>
              sentElems = <<>> /\ sentCloses = <<>> /\ nSteps = 0)
    /\ [](nSteps = 0 =>
              nRoots = IF initial_task # None /\ appPc # "New" THEN 1 ELSE 0)
    /\ [][(appPc \in {"New", "Spawned"} /\ appPc' # "Failed") =>
              Len(msgQ') >= Len(msgQ) /\ Len(dirQ') >= Len(dirQ)]_vars
    /\ [][(appPc = "New" /\ appPc' # "New") =>
              taskQ' = IF initial_task = None
                       THEN taskQ
                       ELSE Append(taskQ, TaskInstance(<<1>>, initial_task[1], FALSE))]_vars
    /\ [][(appPc = "Spawned" /\ appPc' # "Spawned") =>
              /\ appPc' = "Running"
              /\ state = FactoryState /\ state' = state
              /\ sentElems' = <<View(FactoryState)>>
              /\ appLabels' = labels(View(FactoryState))
              /\ UNCHANGED <<msgQ, dirQ, taskQ>>]_vars
    /\ [][appPc' = "Spawned" => appPc \in {"New", "Spawned"}]_vars

\* C10 witness: the loop has started with an initial task configured: the
\* factory's view was sent, the pool got one task, no Message was taken.
C10_Witness ==
    /\ appPc = "Running" /\ nSteps = 0 /\ initial_task # None
    /\ sentElems = <<View(FactoryState)>> /\ nRoots = 1

\* A step of the loop that takes a Directive, whichever it is.
AnyDirectiveStep ==
    /\ appPc = "Running" /\ dirQ # <<>>
    /\ (appPc' = "Stopped" \/ (Len(dirQ') < Len(dirQ)))

\* C11: a step of the loop takes one Message or one Directive, never both.
\* A Message step takes the head of the Message mailbox and leaves the
\* Directive mailbox alone; it applies update once to the State it found,
\* hands one task to the pool, and the view it submits and the labels it
\* stores are those of the updated State. A Directive step takes the head of
\* the Directive mailbox and is no Message step: it applies no update, hands
\* nothing to the pool and stores no labels.
C11_OneInputPerIteration ==
    /\ [][~(MessageStep /\ AnyDirectiveStep)]_vars
    /\ [][MessageStep =>
            /\ msgQ # <<>> /\ msgQ' = Tail(msgQ) /\ dirQ' = dirQ
            /\ state'.updates = state.updates + 1
            /\ nRoots' = nRoots + 1 /\ Len(taskQ') = Len(taskQ) + 1
            /\ sentElems' = <<View(state')>>
            /\ appLabels' = labels(View(state'))]_vars
    /\ [][AnyDirectiveStep =>
            /\ nSteps' = nSteps /\ nRoots' = nRoots /\ taskQ' = taskQ
            /\ appLabels' = appLabels
            /\ (appPc' = "Stopped" \/ (dirQ' = Tail(dirQ) /\ msgQ' = msgQ))]_vars

\* C11 witness: the loop's last step was a Message step taken while a
\* ResetState directive waited; the State holds its update, and another
\* Message and the directive still wait.
C11_Witness ==
    /\ nSteps = 1 /\ state.updates = 1
    /\ sentElems = <<View(state)>> /\ appLabels = labels(View(state))
    /\ msgQ # <<>>
    /\ dirQ # <<>> /\ Head(dirQ) = DirectiveResetState

\* The Message mailbox keeps what it holds, and gains at most one Message at
\* its end.
MailboxKept == msgQ' = msgQ \/ \E m \in Messages : msgQ' = Append(msgQ, m)

\* C12: a Message step applies update to the oldest Message of the mailbox
\* and removes that Message and no other; every other step of a loop that
\* runs on, a Directive step included, leaves the waiting Messages in the
\* mailbox in their order. So Messages are handled in arrival order, each
\* once.
C12_MessagesInArrivalOrder ==
    /\ [][MessageStep =>
            /\ msgQ # <<>>
            /\ state'.last = Some(Head(msgQ))
            /\ msgQ' = Tail(msgQ)]_vars
    /\ [][(~MessageStep /\ appPc' \notin {"Stopped", "Failed"}) => MailboxKept]_vars

\* C12 witness: the loop has handled the Message of the initial task's leaf
\* by its Message branch; the Backend's Message is the next in the mailbox
\* and a Directive waits too.
C12_Witness ==
    /\ nSteps = 1 /\ state.last = Some(OkMessage(<<1>>))
    /\ msgQ = <<InputMessage>>
    /\ dirQ # <<>>

\* A step of the pool's receive loop: it takes the head of the task mailbox.
PoolStep == taskQ # <<>> /\ taskQ' = Tail(taskQ)

\* The pool's receive loop takes a Special task that carries a directive.
SpecialStep ==
    /\ PoolStep
    /\ Head(taskQ).handle.handle = "Special"
    /\ Head(taskQ).handle.directive # SpecialNone

\* The Directive mailbox gained exactly the Directive n at its end.
Gained(n) == dirQ' = Append(dirQ, n)

\* C13: the step that dequeues Special(Stop | ResetState | Submit(e) |
\* Close(l)) puts exactly one Directive of that variant with that payload on
\* an open Directive mailbox and none on a closed one; and the receive loop
\* never ends on it: a waiting task can always be dequeued, whether the
\* receiver is open or dropped.
C13_SpecialToDirective ==
    /\ [][SpecialStep =>
            LET d == Head(taskQ).handle.directive IN
            IF ReceiversOpen
            THEN CASE d.kind = "Stop" -> Gained([variant |-> "Stop"])
                   [] d.kind = "ResetState" -> Gained([variant |-> "ResetState"])
                   [] d.kind = "Submit" ->
                        Gained([variant |-> "Submit", element |-> d.element])
                   [] d.kind = "Close" ->
                        Gained([variant |-> "Close", label |-> d.label])
            ELSE dirQ' = dirQ]_vars
    /\ [](taskQ # <<>> => ENABLED PoolRecv)
    /\ [](~RecvClosed)

\* C13 witness: the receiver was dropped; the pool has dequeued Close("a"),
\* the first of a Then, put no Directive anywhere, and then dequeued and
\* dispatched the second task, whose leaf has been spawned.
C13_Witness ==
    /\ appPc = "Stopped" /\ dirQ = <<>>
    /\ IsThen(<<1>>) /\ coords[<<1>>].tasks[1] = Special(SpecialClose("a"))
    /\ <<1, 2>> \in DOMAIN leaves

\* C13 second witness: with the receiver open the four variants arrive.
C13_WitnessOpen ==
    /\ appPc = "Running"
    /\ dirQ = <<DirectiveSubmit(Widget(Some("b"))), DirectiveClose("a")>>

\* C14: the step that dequeues Special(None) puts nothing on the Directive
\* mailbox and nothing on the Message mailbox, spawns nothing and changes
\* nothing of the Application: State, labels, position of the loop, what
\* it sent.
C14_SpecialNoneDiscarded ==
    [][(PoolStep /\ Head(taskQ).handle = Special(SpecialNone)) =>
          /\ dirQ' = dirQ /\ msgQ' = msgQ
          /\ leaves' = leaves /\ coords' = coords
          /\ UNCHANGED appVars]_vars

\* C14 witness: the initial task was Task::none(); the pool has dequeued it
\* while the loop runs, and both mailboxes are empty.
C14_Witness ==
    /\ initial_task = Some(Special(SpecialNone))
    /\ appPc = "Running" /\ nRoots = 1 /\ taskQ = <<>>
    /\ nInputs = 0 /\ dirQ = <<>> /\ msgQ = <<>>

\* The leaf at p has been spawned and its future returns.
Returns(p) == p \in DOMAIN leaves /\ leaves[p].fut \in {"ok", "err"}

\* A spawned leaf never returns, or returns an error.
SlowOrFailing ==
    \E p \in DOMAIN leaves :
        \/ leaves[p].fut = "never" /\ leaves[p].pc = "running"
        \/ leaves[p].fut = "err"

\* C15: whatever the leaves do (return late, return an error, never
\* return), a task waiting in the pool's mailbox can be dequeued; every
\* task put on the mailbox is eventually dequeued and dispatched; and every
\* spawned leaf whose future returns delivers its Message.
C15_LeafNeverStallsPool ==
    /\ []((SlowOrFailing /\ taskQ # <<>>) => ENABLED PoolRecv)
    /\ <>[](taskQ = <<>>)
    /\ <>[](\A p \in DOMAIN leaves : Returns(p) => Delivered(p) = 1)

\* C15 witness: in batch(never, ok) the first leaf runs and never returns;
\* the second was dispatched after it and has delivered its Message.
C15_Witness ==
    /\ IsBatch(<<1>>)
    /\ coords[<<1>>].tasks = <<Simple("never"), Simple("ok")>>
    /\ <<1, 1>> \in DOMAIN leaves /\ leaves[<<1, 1>>].pc = "running"
    /\ OnMailbox(<<1, 2>>, "Msg")

\* C16: once the loop has stopped on a Stop directive (its task sender is
\* dropped with the server task) and no coordinator holds a clone, no
\* Submitter of the pool's task mailbox remains, so that recv() yields Err
\* and the pool's receive loop ends once the mailbox is empty.
C16_PoolMailboxCloses ==
    (appPc = "Stopped" /\ \A q \in DOMAIN coords : coords[q].pc = "done")
        => TaskSubmitters = 0

\* C17: a spawned leaf whose computation has panicked, and whose spawned
\* task has thereby ended, has its on_error Message on the Message mailbox.
C17_PanicBecomesMessage ==
    \A p \in DOMAIN leaves :
        leaves[p].pc = "panicked" => OnMailbox(p, "Error")

\* The computation of some spawned leaf has panicked.
Panicked == \E p \in DOMAIN leaves : leaves[p].pc = "panicked"

\* C18: after a leaf has panicked the pool's receive loop has not ended and
\* can take a waiting task; every task put on the mailbox is eventually
\* dequeued; and the second task of a Then whose first is a leaf that panics
\* is eventually submitted and dispatched.
C18_PanicKeepsPoolRunning ==
    /\ [](Panicked => (~RecvClosed /\ (taskQ # <<>> => ENABLED PoolRecv)))
    /\ <>[](taskQ = <<>>)
    /\ <>[](\A q \in DOMAIN coords :
               (coords[q].kind = "Then" /\ coords[q].tasks[1] = Simple("panic"))
               => Dispatched(q \o <<2>>))

\* C18 witness: in then(panic, ok) the first leaf has panicked, and the
\* pool has dequeued the second task and spawned its leaf.
C18_Witness ==
    /\ IsThen(<<1>>)
    /\ <<1, 1>> \in DOMAIN leaves /\ leaves[<<1, 1>>].pc = "panicked"
    /\ <<1, 2>> \in DOMAIN leaves /\ leaves[<<1, 2>>].fut = "ok"

\* How far the spawned task of a leaf has come.
Rank(pc) ==
    CASE pc = "running" -> 1
      [] pc = "resolved" -> 2
      [] pc \in {"done", "panicked"} -> 3

\* C20: a task node put on the pool's mailbox was never there before and
\* was never dispatched before; the mailbox holds no node twice; the node
\* the receive loop takes has no spawned leaf or coordinator yet; and the
\* spawned task of a leaf only moves forward: its computation is not started
\* again, whether it returned Ok or Err.
C20_DispatchedAtMostOnce ==
    /\ [][\A x \in QueuedPaths' \ QueuedPaths : x \notin KnownPaths]_vars
    /\ [](\A i, j \in 1..Len(taskQ) : taskQ[i].path = taskQ[j].path => i = j)
    /\ [][PoolStep => Head(taskQ).path \notin (DOMAIN leaves \cup DOMAIN coords)]_vars
    /\ [][\A p \in DOMAIN leaves :
            /\ p \in DOMAIN leaves'
            /\ Rank(leaves'[p].pc) >= Rank(leaves[p].pc)
            /\ leaves'[p].fut = leaves[p].fut]_vars

\* C20 witness: then(batch(err, ok), ok) has run to its end: every node
\* was dispatched, the failing leaf has delivered its on_error Message and
\* its spawned task is over.
C20_Witness ==
    /\ IsThen(<<1>>) /\ coords[<<1>>].pc = "done"
    /\ IsBatch(<<1, 1>>) /\ coords[<<1, 1>>].tasks = <<Simple("err"), Simple("ok")>>
    /\ \A p \in {<<1, 1, 1>>, <<1, 1, 2>>, <<1, 2>>} :
          p \in DOMAIN leaves /\ leaves[p].pc = "done"
    /\ Delivered(<<1, 1, 1>>) = 1

\* Application::run returns in this step, from its select!.
Returning == runResult = None /\ runResult' # None /\ appPc # "New"

\* How many of run's four futures have resolved.
NumResolved ==
    (IF RecvClosed THEN 1 ELSE 0) + (IF appPc = "Stopped" THEN 1 ELSE 0)
    + (IF backendPc \in {"Ok", "Err"} THEN 1 ELSE 0) + (IF interrupted THEN 1 ELSE 0)

C19_WitnessBackendErr ==
    /\ runResult = Some([by |-> "backend", result |-> "Err"])
    /\ appPc = "Running" /\ ~interrupted

(* ---------------------- claims: examples/basic.rs ----------------------- *)

\* The Backend-facing sends about "bar.left" of the task that update
\* returns for Message::Open.
SubmitLeft == [op |-> "Submit", labels |-> <<Some("bar.left")>>]

CloseLeft == [op |-> "Close", label |-> "bar.left"]

\* The loop has handled Message::Open: its task is the second root.
OpenHandled == app = "basic" /\ nSteps >= 1 /\ initial_task = Some(msg("Open"))

\* The wait leaf of that task (first.second of the outer sequence) has
\* completed: its future has returned and its completion signal has fired.
WaitCompleted ==
    /\ <<2, 1, 2>> \in DOMAIN leaves
    /\ leaves[<<2, 1, 2>>].pc \in {"resolved", "done"}
    /\ signals[<<2, 1, 2>>] = "fired"

\* C21: for submit("bar.left").then(wait(d, Nothing)).then(close("bar.left"))
\* the sends to the Backend about "bar.left" are, in order, the element and
\* then one close request, and never more; no close request is sent before
\* the wait leaf has completed; no Message step (the re-render after Nothing
\* included) sends one; and once Open is handled the trace becomes exactly
\* the element followed by the one close request.
C21_SubmitWaitClose ==
    /\ [](backendTrace \in {<<>>, <<SubmitLeft>>, <<SubmitLeft, CloseLeft>>})
    /\ [](contains(backendTrace, CloseLeft) => WaitCompleted)
    /\ [][MessageStep =>
            backendTrace' = backendTrace /\ ~contains(sentCloses', "bar.left")]_vars
    /\ OpenHandled ~> (backendTrace = <<SubmitLeft, CloseLeft>>)

\* C21 witness: Nothing has been handled and its re-render has closed
\* "bar.top" only; the element and then one close request for "bar.left"
\* have been sent.
C21_Witness ==
    /\ OpenHandled /\ nSteps = 2 /\ state.top = FALSE
    /\ appLabels = <<Some("bar.bottom")>>
    /\ backendTrace = <<SubmitLeft, CloseLeft>>

\* C21 second witness: the re-render after Nothing is the loop's last step
\* while "bar.left" is shown and not yet closed.
C21_WitnessRerender ==
    /\ OpenHandled /\ nSteps = 2 /\ sentCloses = <<"bar.top">>
    /\ stepSends = <<"tasks", "submitter", "closer">>
    /\ backendTrace = <<SubmitLeft>>

(* ------------------------ claims: the mailboxes ------------------------ *)

\* A submit on the channel followed on its own returns in this step.
SubmitReturns ==
    /\ app = "channel" /\ returned' # None /\ returned'[1].op = "submit"
    /\ mailbox'.submitters = mailbox.submitters /\ mailbox'.server = mailbox.server
    /\ (returned' # returned \/ Len(mailbox'.buf) = Len(mailbox.buf) + 1)

\* A recv on the channel followed on its own returns in this step.
RecvReturns ==
    /\ app = "channel" /\ returned' # None /\ returned'[1].op = "recv"
    /\ mailbox'.submitters = mailbox.submitters /\ mailbox'.server = mailbox.server
    /\ (returned' # returned \/ Len(mailbox'.buf) = Len(mailbox.buf) - 1)

\* The spawned task of some leaf ends in this step, after its submit.
LeafEnds(p) ==
    /\ p \in DOMAIN leaves /\ leaves[p].pc = "resolved"
    /\ leaves'[p].pc = "done"

\* The receiving halves of the Backend's two mailboxes are gone: the task
\* of backend.run() has returned and dropped the Backend.
BackendGone == backendPc \in {"Ok", "Err"}

\* The callers of submit go on after an error: a leaf that submits to the
\* dropped Message mailbox ends as after a success, and puts nothing
\* anywhere; the pool can always take a waiting task; the loop whose Backend
\* is gone can take a waiting Directive and a waiting Message, and leaves
\* Running on Stop only.
CallersKeepRunning ==
    /\ [][\A p \in DOMAIN leaves :
            (LeafEnds(p) /\ ~ReceiversOpen) => msgQ' = msgQ]_vars
    /\ [](\A p \in DOMAIN leaves : leaves[p].pc = "resolved" => ENABLED Leaf)
    /\ [](taskQ # <<>> => ENABLED PoolRecv)
    /\ []((appPc = "Running" /\ BackendGone) =>
            /\ dirQ # <<>> => ENABLED AppDirective
            /\ (msgQ # <<>> /\ nSteps < MaxSteps) => ENABLED AppMessage)
    /\ [][(appPc = "Running" /\ appPc' # "Running") =>
            dirQ # <<>> /\ Head(dirQ) = DirectiveStop]_vars

\* A submit after the Server was dropped returns an error value and leaves
\* the mailbox as it was; with a Submitter left a submit always returns.
SubmitOnDroppedServer ==
    /\ [][(SubmitReturns /\ ~mailbox.server) =>
            /\ returned'[1].result = Err("channel closed")
            /\ mailbox' = mailbox]_vars
    /\ []((app = "channel" /\ mailbox.submitters > 0 /\ ~mailbox.server)
            => ENABLED ChanSubmit)

\* C22 as stated: submit on a mailbox whose Server is dropped returns an
\* error and never panics; recv on a mailbox all of whose Submitters are
\* dropped returns the channel-closed error; the callers of submit go on.
C22_ClosedMailboxErrors ==
    /\ SubmitOnDroppedServer
    /\ [][(RecvReturns /\ mailbox.submitters = 0) =>
            returned'[1].result = Err("Channel Closed")]_vars
    /\ CallersKeepRunning

\* C22 amended: as stated, but recv on a mailbox all of whose Submitters are
\* dropped returns the channel-closed error once no value waits in the
\* mailbox; the values that wait are returned first, oldest first; and recv
\* returns no error while a Submitter is left.
C22_ClosedMailboxDrains ==
    /\ SubmitOnDroppedServer
    /\ [][(RecvReturns /\ mailbox.submitters = 0) =>
            /\ returned'[1].result =
                  IF mailbox.buf = <<>>
                  THEN Err("Channel Closed") ELSE Ok(Head(mailbox.buf))
            /\ mailbox.buf # <<>> => mailbox'.buf = Tail(mailbox.buf)]_vars
    /\ [][(RecvReturns /\ mailbox.submitters > 0) => returned'[1].result.ok]_vars
    /\ CallersKeepRunning

\* C22 witness: every Submitter was dropped while a value waited; recv has
\* returned the channel-closed error, and the mailbox is empty.
C22_Witness ==
    /\ app = "channel" /\ mailbox.submitters = 0 /\ mailbox.buf = <<>>
    /\ returned = Some([op |-> "recv", result |-> Err("Channel Closed")])

\* C22 second witness: a submit after the Server was dropped has returned an
\* error.
C22_WitnessSubmit ==
    /\ app = "channel" /\ ~mailbox.server
    /\ returned = Some([op |-> "submit", result |-> Err("channel closed")])

\* C22 third witness: the loop has stopped and dropped its receivers while
\* a leaf is about to submit its Message.
C22_WitnessCaller ==
    /\ app = "run" /\ appPc = "Stopped"
    /\ \E p \in DOMAIN leaves : leaves[p].pc = "resolved"

(* --------------------- claims: directives and State --------------------- *)

\* What a Directive step leaves alone when update and view are not called:
\* the State, the tracked labels, the count of Message steps, the Message
\* mailbox, and the pool, which is handed no task.
NoUpdateNoView ==
    /\ state' = state /\ appLabels' = appLabels
    /\ nSteps' = nSteps /\ msgQ' = msgQ
    /\ nRoots' = nRoots /\ taskQ' = taskQ

\* C23: the step that takes Directive::Submit(element) sends exactly that
\* element to the Backend submitter and nothing to the closer; the step that
\* takes Directive::Close(label) sends exactly that label to the closer and
\* nothing to the submitter; after either the loop is Running, and neither
\* update nor view was called: State, labels and pool are as before.
C23_SubmitCloseForwarded ==
    /\ [][(AnyDirectiveStep /\ Head(dirQ).variant = "Submit") =>
            /\ sentElems' = <<Head(dirQ).element>> /\ sentCloses' = <<>>
            /\ stepSends' = <<"submitter">>
            /\ appPc' = "Running" /\ NoUpdateNoView]_vars
    /\ [][(AnyDirectiveStep /\ Head(dirQ).variant = "Close") =>
            /\ sentCloses' = <<Head(dirQ).label>> /\ sentElems' = <<>>
            /\ stepSends' = <<"closer">>
            /\ appPc' = "Running" /\ NoUpdateNoView]_vars

\* C23 witness: the loop's last step forwarded the element of a Submit
\* directive, which is not the view of the State, after a Message step.
C23_Witness ==
    /\ appPc = "Running" /\ nSteps >= 1
    /\ stepSends = <<"submitter">>
    /\ sentElems = <<Widget(Some("b"))>> /\ sentElems # <<View(state)>>

\* C23 second witness: the loop's last step forwarded the label of a Close
\* directive, a label that the render shows.
C23_WitnessClose ==
    /\ appPc = "Running" /\ stepSends = <<"closer">>
    /\ sentCloses = <<"a">> /\ contains(appLabels, Some("a"))

\* A step of a Then or Batch coordinator.
CoordinatorStep == coords' # coords /\ DOMAIN coords' = DOMAIN coords

\* A step of the spawned task of a leaf.
LeafStep == leaves' # leaves /\ DOMAIN leaves' = DOMAIN leaves

\* The Backend emits a Message.
BackendStep == nInputs' # nInputs

\* C24: the State is made by the factory in jobs and changes only in a
\* Message step of the loop, where it becomes what update leaves of it, and
\* in the step that takes ResetState, where it becomes the factory's; no
\* step of the pool, of a coordinator, of a leaf or of the Backend changes
\* it, and neither does the render that starts the loop (view alone).
C24_StateOwnedByLoop ==
    /\ [][state' # state =>
            \/ appPc = "New" /\ state' = Factory(app)
            \/ MessageStep /\ \E r \in Update(app, state, Head(msgQ)) : state' = r.state
            \/ DirectiveStep(DirectiveResetState) /\ state' = Factory(app)]_vars
    /\ [][(PoolStep \/ CoordinatorStep \/ LeafStep \/ BackendStep) =>
            state' = state]_vars
    /\ [][(appPc = "Spawned" /\ appPc' = "Running") =>
            state' = state /\ sentElems' = <<View(state)>>]_vars

\* C24 witness: the pool has dispatched a sequence and a batch, coordinators
\* and a leaf have run, the Backend has emitted its Message, and the State
\* holds the one update of the one Message step.
C24_Witness ==
    /\ \E q \in DOMAIN coords : coords[q].kind = "Then" /\ coords[q].pc = "done"
    /\ \E q \in DOMAIN coords : coords[q].kind = "Batch" /\ coords[q].pc = "done"
    /\ \E p \in DOMAIN leaves : leaves[p].pc = "done"
    /\ nInputs = 1 /\ nSteps = 1 /\ state.updates = 1

\* C24 second witness: after a Message step a ResetState of a sequence has
\* put the factory's State back.
C24_WitnessReset ==
    /\ nSteps = 2 /\ state = FactoryState /\ dirQ = <<>> /\ appPc = "Running"

(* ---------------------- claims: composite tasks ------------------------ *)

\* The future of the leaf at x has returned and its completion signal was
\* sent.
Completed(x) == x \in DOMAIN leaves /\ leaves[x].pc \in {"resolved", "done"}

\* Every leaf of the tree t rooted at p has completed: its Simple leaves
\* have returned, its Special leaves were carried out by the pool.
LeavesCompleted(t, p) ==
    \A n \in Nodes(t, p) :
        /\ n.tree.handle = "Simple" => Completed(n.path)
        /\ n.tree.handle = "Special" => Dispatched(n.path)

\* C25: when the completion signal of a sub-task has fired, all the leaves
\* of that sub-task have completed; the second task of a Then exists in the
\* pool only when all the leaves of its first have (for then(batch(A, B), C):
\* both A and B; for then(then(A, B), C): B, and A); and a Then has ended,
\* and fired its own signal, only after the signal of its second.
C25_CompositeCompletion ==
    \A q \in DOMAIN coords :
        /\ \A i \in 1..Len(coords[q].tasks) :
              (Submitted(q \o <<i>>) /\ signals[q \o <<i>>] = "fired")
              => LeavesCompleted(coords[q].tasks[i], q \o <<i>>)
        /\ (coords[q].kind = "Then" /\ Submitted(q \o <<2>>))
              => LeavesCompleted(coords[q].tasks[1], q \o <<1>>)
        /\ (coords[q].kind = "Then" /\ coords[q].pc = "done")
              => (Submitted(q \o <<2>>) /\ signals[q \o <<2>>] = "fired")

\* C25 witness: in then(batch(A, B), C) the pool has been given C, and A
\* and B have completed, B's Message not yet delivered.
C25_Witness ==
    /\ IsThen(<<1>>) /\ IsBatch(<<1, 1>>) /\ Submitted(<<1, 2>>)
    /\ coords[<<1>>].tasks[2].handle = "Simple"
    /\ Completed(<<1, 1, 1>>) /\ Completed(<<1, 1, 2>>)
    /\ leaves[<<1, 1, 2>>].pc = "resolved"

\* C25 second witness: in then(then(A, B), C) the pool has been given C,
\* and B has completed.
C25_WitnessNested ==
    /\ IsThen(<<1>>) /\ IsThen(<<1, 1>>) /\ Submitted(<<1, 2>>)
    /\ Completed(<<1, 1, 1>>) /\ Completed(<<1, 1, 2>>)

\* The Then at q whose first task is a Simple leaf that returns an error.
FirstFails(q) == IsThen(q) /\ coords[q].tasks[1] = Simple("err")

\* C26: for then(A, B) with A a Simple leaf that returns an error, B is
\* put on the pool's mailbox only after A has completed; B is eventually
\* dispatched (its leaf spawned, when it is a leaf), and A's on_error
\* Message is eventually delivered, once.
C26_FailedFirstRunsSecond ==
    /\ [](\A q \in DOMAIN coords :
            (FirstFails(q) /\ Submitted(q \o <<2>>)) => Completed(q \o <<1>>))
    /\ <>[](\A q \in DOMAIN coords :
            FirstFails(q) =>
                /\ Dispatched(q \o <<2>>)
                /\ coords[q].tasks[2].handle = "Simple" => (q \o <<2>>) \in DOMAIN leaves
                /\ OnMailbox(q \o <<1>>, "Error") /\ Delivered(q \o <<1>>) = 1)

\* C26 witness: in then(A, B) the leaf A has returned an error and
\* delivered its on_error Message, and the leaf B has run to its end.
C26_Witness ==
    /\ FirstFails(<<1>>) /\ OnMailbox(<<1, 1>>, "Error")
    /\ <<1, 2>> \in DOMAIN leaves /\ leaves[<<1, 2>>].fut = "ok"
    /\ leaves[<<1, 2>>].pc = "done" /\ OnMailbox(<<1, 2>>, "Msg")

(* ----------------------- claims: the Message step ---------------------- *)

\* The position of the first send to mailbox m in the sends s, or 0.
FirstSend(s, m) ==
    IF \E i \in 1..Len(s) : s[i] = m
    THEN CHOOSE i \in 1..Len(s) : s[i] = m /\ \A j \in 1..(i - 1) : s[j] # m
    ELSE 0

\* The labels of the label list s (absent labels are not labels).
Labelled(s) == {s[i][1] : i \in {j \in 1..Len(s) : s[j] # None}}

\* The labels of the close requests cs.
Closed(cs) == {cs[i] : i \in 1..Len(cs)}

\* C27: a Message step applies update to the State it found; hands the
\* Task that update returned to the pool, as its first send; calls view on
\* the updated State and submits that Element to the Backend, as its second
\* send; sends the close requests after it, each for a label of the labels
\* tracked before the step that the new Element lacks; and tracks the labels
\* of the new Element afterwards.
C27_MessageStepOrder ==
    [][MessageStep =>
        /\ \E r \in Update(app, state, Head(msgQ)) :
              /\ state' = r.state
              /\ taskQ' = Append(taskQ, TaskInstance(<<nRoots'>>, r.task, FALSE))
        /\ sentElems' = <<View(state')>>
        /\ Len(stepSends') = 2 + Len(sentCloses')
        /\ stepSends'[1] = "tasks" /\ stepSends'[2] = "submitter"
        /\ \A i \in 3..Len(stepSends') : stepSends'[i] = "closer"
        /\ \A i \in 1..Len(sentCloses') :
              /\ contains(appLabels, Some(sentCloses'[i]))
              /\ ~contains(labels(View(state')), Some(sentCloses'[i]))
        /\ appLabels' = labels(View(state'))]_vars

\* C27 witness: a Message step has handed its task to the pool, submitted
\* the new Element, and then sent two close requests; it tracks the labels
\* of the new Element.
C27_Witness ==
    /\ nSteps >= 1 /\ stepSends = <<"tasks", "submitter", "closer", "closer">>
    /\ FirstSend(stepSends, "submitter") < FirstSend(stepSends, "closer")
    /\ sentCloses = <<"a", "b">> /\ sentElems = <<View(state)>>
    /\ appLabels = labels(View(state))

\* C28: the labels closed by a Message step are exactly the labels of the
\* previous render that the new render lacks: none that the new render
\* shows, and none for an element without a label.
C28_DiffIsSetDifference ==
    [][MessageStep =>
        /\ Closed(sentCloses') = Labelled(appLabels) \ Labelled(appLabels')
        /\ Closed(sentCloses') \cap Labelled(appLabels') = {}
        /\ Closed(sentCloses') \subseteq Labels]_vars

\* C28 witness: the previous render showed an element without a label and
\* the elements a and b; the new render shows only b and an element without a
\* label of its own; the step closed a alone.
C28_Witness ==
    /\ nSteps = 2 /\ appLabels = <<Some("b"), None>>
    /\ sentCloses = <<"a">>

(* -------------------- claims: directives and labels -------------------- *)

\* C29: the step that takes Directive::Submit, Directive::Close or
\* Directive::ResetState leaves the tracked labels as they were; and the
\* diff of a Message step closes tracked labels only, so that the label of
\* an element that only a Submit directive brought to the Backend gets a
\* close request from a Close directive alone.
C29_DirectivesKeepLabels ==
    /\ [][(AnyDirectiveStep /\ Head(dirQ).variant \in {"Submit", "Close", "ResetState"})
            => appLabels' = appLabels]_vars
    /\ [][MessageStep =>
            \A l \in Labels :
                ~contains(appLabels, Some(l)) => ~contains(sentCloses', l)]_vars
    /\ [][\A l \in Labels :
            (~contains(appLabels, Some(l)) /\ contains(sentCloses', l)
                /\ sentCloses' # sentCloses)
            => DirectiveStep(DirectiveClose(l))]_vars

\* C29 witness: after a render that shows a alone, the loop's last step
\* forwarded the element b of a Submit directive; b is not tracked.
C29_Witness ==
    /\ appPc = "Running" /\ nSteps >= 1
    /\ stepSends = <<"submitter">> /\ sentElems = <<Widget(Some("b"))>>
    /\ appLabels = <<Some("a")>>

\* C30: the step that takes Directive::ResetState sends nothing to the
\* Backend and calls no view: the tracked labels stay those of the render
\* before the reset; and the Message step after it closes the labels of
\* that render which its own render lacks.
C30_ResetSendsNothing ==
    /\ [][DirectiveStep(DirectiveResetState) =>
            /\ sentElems' = <<>> /\ sentCloses' = <<>> /\ stepSends' = <<>>
            /\ appLabels' = appLabels
            /\ state' = Factory(app) /\ appPc' = "Running"]_vars
    /\ [][(MessageStep /\ state = Factory(app)) =>
            /\ Closed(sentCloses') = Labelled(appLabels) \ Labelled(labels(View(state')))
            /\ sentElems' = <<View(state')>>]_vars

\* C30 witness: the State was reset after a render that shows a alone; the
\* loop's last step was the reset, and the labels of that render are still
\* tracked, not those of the factory's State.
C30_Witness ==
    /\ appPc = "Running" /\ nSteps >= 1 /\ state = FactoryState
    /\ stepSends = <<>> /\ sentElems = <<>>
    /\ appLabels = <<Some("a")>> /\ appLabels # labels(View(state))

\* C30 second witness: the Message step after such a reset rendered an
\* element without a label and closed a alone, though b is a label of the
\* factory's view.
C30_WitnessNextStep ==
    /\ nSteps = 2 /\ state.updates = 1 /\ appLabels = <<None>>
    /\ sentCloses = <<"a">>

(* ----------------------- claims: Backend::new fails -------------------- *)

\* Backend::new returned an error and `?` made jobs, and with it run, return
\* that error.
BackendNewFailed == runResult = Some([by |-> "jobs", result |-> "Err"])

\* C31: once Backend::new has returned an error, run has returned that
\* error and jobs has ended before the spawn of the server task: no view
\* was rendered and no Element submitted, the loop took no step, the task of
\* Backend::run does not exist; and this stays so.
C31_BackendNewError ==
    /\ [](BackendNewFailed =>
            /\ appPc = "Failed"
            /\ sentElems = <<>> /\ sentCloses = <<>> /\ stepSends = <<>>
            /\ appLabels = <<>> /\ nSteps = 0
            /\ backendPc = "None" /\ nInputs = 0)
    /\ [][appPc = "Failed" => (appPc' = "Failed" /\ runResult' = runResult)]_vars
    /\ [][Jobs => (appPc' = "Failed" <=> BackendNewFailed')]_vars

\* C31 witness: Backend::new failed after the initial task was submitted,
\* and the pool, spawned before, has dispatched that task since.
C31_Witness ==
    /\ BackendNewFailed /\ appPc = "Failed"
    /\ nRoots = 1 /\ taskQ = <<>>

(* --------------------- claims: coordinators terminate ------------------ *)

\* The coordinator of the node n has sent its completion signal, when its
\* task carried one, and has returned.
CoordinatorExited(n) ==
    /\ n.path \in DOMAIN coords /\ coords[n.path].pc = "done"
    /\ coords[n.path].signal => signals[n.path] = "fired"

\* The coordinator at q awaits the release of a sub-task whose sender was
\* dropped without being fired.
AwaitsDropped(q) ==
    \/ /\ IsThen(q) /\ coords[q].pc = "await_first"
       /\ signals[q \o <<1>>] = "dropped"
    \/ /\ IsThen(q) /\ coords[q].pc = "await_second"
       /\ signals[q \o <<2>>] = "dropped"
    \/ /\ IsBatch(q) /\ coords[q].pc = "await"
       /\ coords[q].idx <= Len(coords[q].tasks)
       /\ signals[q \o <<coords[q].idx>>] = "dropped"

\* C32: for a tree whose Simple leaves all end (Ok, Err or panic), every
\* Then and Batch node of it ends with its coordinator spawned, returned,
\* and its own completion signal fired when it has one; and a coordinator
\* that awaits a release whose sender was dropped can always go on.
C32_CoordinatorsExit ==
    /\ <>[](\A n \in KnownNodes : CoordinatorExited(n))
    /\ [](\A q \in DOMAIN coords :
            AwaitsDropped(q) =>
                ENABLED (ThenSubmitSecond(q) \/ ThenFinish(q) \/ BatchAwait(q)))

\* C32 witness: the coordinator of a nested sequence has fired its own
\* completion signal and returned, though its first leaf panicked and
\* dropped its sender unfired; the coordinator above it has returned too.
C32_Witness ==
    \E q \in DOMAIN coords :
        /\ IsThen(q) /\ coords[q].signal /\ CoordinatorExited([path |-> q])
        /\ signals[q \o <<1>>] = "dropped"
        /\ (q \o <<1>>) \in DOMAIN leaves /\ leaves[q \o <<1>>].pc = "panicked"
        /\ CoordinatorExited([path |-> <<1>>])

(* ------------------ claims: examples/empty_backend.rs ------------------ *)

\* run has returned Ok(()) from the branch of the server task.
RunReturnedOk == runResult = Some([by |-> "server", result |-> "Ok"])

\* The loop has handled a Message with this body: update returned for it
\* the task that the pool got as root r.
Handled(body) ==
    \E r \in 2..nRoots :
        \/ body = "Nothing" /\ IsThen(<<r>>)
        \/ body = "Error" /\ <<r>> \in DOMAIN leaves /\ leaves[<<r>>].fut = "Stop"

\* C33: examples/empty_backend.rs ends: the loop reaches Stopped and stays
\* there, run returns, and whatever run returns is Ok; before the loop
\* stops it has handled Message::Nothing, and it stops only on a Stop
\* directive, which the pool emits only for the task of update(Stop).
C33_EmptyBackendStops ==
    /\ <>[](appPc = "Stopped")
    /\ <>[]RunReturnedOk
    /\ [](runResult # None => RunReturnedOk /\ appPc = "Stopped")
    /\ [](appPc = "Stopped" => Handled("Nothing"))
    /\ [](appPc # "Failed")

\* C33 witness: run has returned Ok after the loop handled Nothing, the
\* on_error Message of the failing leaf, and a Stop.
C33_Witness ==
    /\ RunReturnedOk /\ appPc = "Stopped"
    /\ Handled("Nothing") /\ Handled("Error") /\ nSteps >= 3

\* C33 second witness: the loop stopped on the Stop of the wait leaf, the
\* on_error Message not yet handled.
C33_WitnessWaitFirst ==
    /\ appPc = "Stopped" /\ ~Handled("Error") /\ nSteps = 2

(* ------------------------ claims: Element lists ------------------------ *)

\* The labels of the elements of the list es, in order.
LabelsOfList(es) == [i \in 1..Len(es) |-> label(es[i])]

\* C34: into_list of a container is the sequence of its direct children, as
\* they are and in their order; into_list of any other element is the list
\* of that element alone; and labels is the list of the labels of the
\* elements of into_list, position by position, None where the element has
\* no label.
C34_IntoListAndLabels ==
    (app = "element" /\ returned # None) =>
        LET e == elementIn[1]
            r == returned[1]
        IN  /\ (r.op = "into_list" /\ e.container) =>
                    /\ Len(r.value) = Len(e.elements)
                    /\ \A i \in 1..Len(e.elements) : r.value[i] = e.elements[i]
            /\ (r.op = "into_list" /\ ~e.container) => r.value = <<e>>
            /\ r.op = "labels" =>
                    /\ r.value = LabelsOfList(into_list(e))
                    /\ Len(r.value) = Len(into_list(e))
                    /\ \A i \in 1..Len(r.value) :
                          r.value[i] = None <=> into_list(e)[i].label = None

\* C34 witness: labels of a container whose children are a labelled
\* widget and a container kept its order and the None of the container.
C34_Witness ==
    /\ app = "element"
    /\ elementIn = Some(Container(<<Widget(Some("b")), Container(<<Widget(Some("a"))>>)>>))
    /\ returned = Some([op |-> "labels", value |-> <<Some("b"), None>>])

\* C34 second witness: a mapped container is no container: it unpacks to
\* itself.
C34_WitnessMapped ==
    /\ app = "element"
    /\ elementIn = Some(map(Container(<<Widget(Some("a"))>>)))
    /\ returned = Some([op |-> "into_list",
                        value |-> <<map(Container(<<Widget(Some("a"))>>))>>])

(* ---------------------- claims: Executable tasks ----------------------- *)

\* The coordinator of the Then at q has executed its second task.
SecondExecuted(q) == coords[q].second \in {TaskRunning, TaskAskedForStop}

\* A payload or a coordinator was spawned for a node of the second task of
\* the Then at q.
SpawnedUnderSecond(q) ==
    \E x \in DOMAIN leaves \cup DOMAIN coords : UnderSecond(x, q)

\* C35: in the Executable API the coordinator of a Then has executed the
\* second task (or anything is spawned for it) only when the JoinHandle of
\* the first task has resolved without a JoinError; once joining the first
\* task has failed the second task is not executed, in any later state, and
\* the coordinator has skipped it when it returns.
C35_SecondAfterJoin ==
    \A q \in DOMAIN coords :
        (app = "exec" /\ IsThen(q)) =>
            /\ (SecondExecuted(q) \/ SpawnedUnderSecond(q)) =>
                    (Joined(q \o <<1>>) /\ ~JoinFailed(q \o <<1>>))
            /\ JoinFailed(q \o <<1>>) =>
                    /\ ~SecondExecuted(q) /\ ~SpawnedUnderSecond(q)
                    /\ coords[q].pc = "done" => coords[q].second = "skipped"

\* C35 witness: the payload of the second task runs after the first
\* payload returned an error, which is no JoinError.
C35_Witness ==
    /\ app = "exec" /\ IsThen(<<1>>)
    /\ <<1, 1>> \in DOMAIN leaves
    /\ leaves[<<1, 1>>].fut = "err" /\ leaves[<<1, 1>>].pc = "done"
    /\ <<1, 2>> \in DOMAIN leaves /\ leaves[<<1, 2>>].pc = "running"

\* C35 second witness: the first payload panicked, and the coordinator has
\* returned without executing the second task.
C35_WitnessJoinError ==
    /\ app = "exec" /\ IsThen(<<1>>)
    /\ JoinFailed(<<1, 1>>) /\ coords[<<1>>].pc = "done"
    /\ coords[<<1>>].second = "skipped"

\* The task t asks for stop when it is executed.
AsksForStop(t) == execute(t, <<0>>).status = TaskAskedForStop

\* The Then nodes of the task handed to execute whose first task asks for
\* stop.
StoppedThens ==
    IF app = "exec" /\ returned # None
    THEN {n \in Nodes(returned[1].task, <<1>>) :
            n.tree.handle = "Then" /\ AsksForStop(n.tree.first)}
    ELSE {}

\* C36: in the Executable API a Then whose first task asks for stop
\* returns TaskAskedForStop from execute; no coordinator is spawned for it
\* and nothing is ever spawned for its second task.
C36_StopSkipsSecond ==
    \A n \in StoppedThens :
        /\ execute(n.tree, n.path).status = TaskAskedForStop
        /\ n.path = <<1>> => returned[1].status = TaskAskedForStop
        /\ n.path \notin DOMAIN coords
        /\ \A x \in DOMAIN leaves \cup DOMAIN coords : ~UnderSecond(x, n.path)

\* C36 witness: the first task of the Then is a batch that spawned a payload
\* before its second member asked for stop; execute returned
\* TaskAskedForStop and the payload has ended since, with nothing spawned
\* for the second task of the Then.
C36_Witness ==
    /\ app = "exec" /\ returned # None
    /\ returned[1].task = Then(Batch(<<Simple("ok"), stop>>), Simple("ok"))
    /\ returned[1].status = TaskAskedForStop
    /\ DOMAIN leaves = {<<1, 1, 1>>} /\ leaves[<<1, 1, 1>>].pc = "done"

\* The Batch nodes of the task handed to execute that have a member which
\* asks for stop.
StoppedBatches ==
    IF app = "exec" /\ returned # None
    THEN {n \in Nodes(returned[1].task, <<1>>) :
            /\ n.tree.handle = "Batch"
            /\ \E i \in 1..Len(n.tree.tasks) : AsksForStop(n.tree.tasks[i])}
    ELSE {}

\* Something spawned for a member of the batch at q has not ended.
MemberRunning(q) ==
    \/ \E x \in DOMAIN leaves :
          IsPrefix(q, x) /\ x # q /\ leaves[x].pc = "running"
    \/ \E x \in DOMAIN coords :
          IsPrefix(q, x) /\ x # q /\ coords[x].pc # "done"

\* C37: in the Executable API a Batch with a member that asks for stop
\* returns TaskAskedForStop from execute, and no member of it is running
\* then or later.
C37_BatchStopAborts ==
    \A n \in StoppedBatches :
        /\ execute(n.tree, n.path).status = TaskAskedForStop
        /\ n.path = <<1>> => returned[1].status = TaskAskedForStop
        /\ ~MemberRunning(n.path)

\* The Then nodes of the task handed to execute whose first task runs and
\* whose second task asks for stop.
LateStopThens ==
    IF app = "exec" /\ returned # None
    THEN {n \in Nodes(returned[1].task, <<1>>) :
            /\ n.tree.handle = "Then"
            /\ ~AsksForStop(n.tree.first) /\ AsksForStop(n.tree.second)}
    ELSE {}

\* C38: in the Executable API a Then whose second task asks for stop has
\* returned TaskRunning from execute; when its coordinator meets the stop
\* request it returns, and the Status the caller got never changes: the
\* caller does not observe TaskAskedForStop for that Then.
C38_LateStopNotPropagated ==
    /\ [](\A n \in LateStopThens :
            /\ execute(n.tree, n.path).status = TaskRunning
            /\ n.path = <<1>> =>
                    /\ returned[1].status = TaskRunning /\ <<1>> \in DOMAIN coords
            /\ (n.path \in DOMAIN coords
                    /\ coords[n.path].second = TaskAskedForStop) =>
                    coords[n.path].pc = "done")
    /\ [][returned # None => returned' = returned]_vars

\* C38 witness: the coordinator of then(payload, stop) has executed stop
\* after the payload ended and has returned; the caller holds TaskRunning.
C38_Witness ==
    /\ app = "exec" /\ returned # None
    /\ returned[1].task = Then(Simple("ok"), stop)
    /\ returned[1].status = TaskRunning
    /\ coords[<<1>>].second = TaskAskedForStop /\ coords[<<1>>].pc = "done"

\* C39: in the Executable API the task spawned for a payload has sent
\* nothing while the payload runs; once it has ended it has sent exactly
\* one Message, on_err(report), when the payload returned an error, and
\* none when the payload returned its Message; the client's mailbox holds
\* nothing but such on_err Messages.
C39_OnlyErrorsAreSent ==
    app = "exec" =>
        /\ \A p \in DOMAIN leaves :
              /\ leaves[p].pc = "running" => Delivered(p) = 0
              /\ (leaves[p].pc = "done" /\ leaves[p].fut = "err") =>
                    (Delivered(p) = 1 /\ OnMailbox(p, "Error"))
              /\ leaves[p].fut # "err" => Delivered(p) = 0
        /\ \A i \in 1..Len(msgQ) :
              /\ msgQ[i].leaf \in DOMAIN leaves
              /\ msgQ[i] = on_error(msgQ[i].leaf)
              /\ leaves[msgQ[i].leaf].fut = "err"

\* C39 witness: of two payloads that have ended, the one that returned its
\* Message has sent nothing and the one that failed its on_err Message.
C39_Witness ==
    /\ app = "exec" /\ DOMAIN leaves = {<<1, 1>>, <<1, 2>>}
    /\ leaves[<<1, 1>>].fut = "ok" /\ leaves[<<1, 1>>].pc = "done"
    /\ leaves[<<1, 2>>].fut = "err" /\ leaves[<<1, 2>>].pc = "done"
    /\ msgQ = <<on_error(<<1, 2>>)>>

(* ----------------------- claims: Wayland Backend ----------------------- *)

\* The labels of the views of the element e.
ViewLabels(e) == {ViewsOf(e)[i].label : i \in 1..Len(ViewsOf(e))}

\* C40: when the Wayland Backend has processed an Element, every label
\* that was in lut and is the label of a view of that Element is still in
\* lut with the same surface, which is still in views and was not
\* destroyed; the labels removed from lut are labels the Element lacks; and
\* every id in lut is a key of views.
C40_LiveViewKept ==
    /\ [][BackendReceives =>
            /\ \A l \in DOMAIN backendState.lut \cap ViewLabels(elementIn'[1]) :
                  /\ l \in DOMAIN backendState'.lut
                  /\ backendState'.lut[l] = backendState.lut[l]
                  /\ backendState.lut[l] \in backendState'.views
                  /\ backendState.lut[l] \notin backendState'.destroyed
            /\ \A l \in DOMAIN backendState.lut \ DOMAIN backendState'.lut :
                  l \notin ViewLabels(elementIn'[1])]_vars
    /\ [](app = "wayland" =>
            \A l \in DOMAIN backendState.lut : backendState.lut[l] \in backendState.views)

====
